---- MODULE Spec2Model ----
(***************************************************************************)
(* Model of the job-runner: the expander (create_or_update_jobs), the      *)
(* run loop (run.py), the container/volume life cycle and the finaliser    *)
(* (manage_jobs.py).  The sync process and the run process are two          *)
(* separate OS processes sharing one SQLite file and one file system.      *)
(***************************************************************************)
EXTENDS Integers, Sequences, FiniteSets, TLC

VARIABLES
    store,      \* committed content of the SQLite file: tables job and job_request
    tx,         \* the sync process: its open transaction / position in create_or_update_jobs
    loop,       \* the run process: position in handle_jobs and in the current handler
    docker,     \* per job id: its container and its volume
    disk,       \* workspaces on disk: files, logs and manifests (high and medium privacy)
    kills,      \* number of process kills so far
    config,     \* config.py: the settings read from the environment at start-up
    now,        \* the wall clock
    hist        \* observations used to state properties (never read by the program)

vars == <<store, tx, loop, docker, disk, kills, config, now, hist>>

----------------------------------------------------------------------------
(* Bounds *)

MaxJobs == 3        \* rows of the job table
MaxRequests == 2    \* distinct job request ids the coordinator issues
MaxKills == 1       \* process kills (of either process)
MaxPopulated == 3   \* times the volume of one job is populated
MaxFailures == 1    \* failures of docker commands

----------------------------------------------------------------------------
(* Configuration and enumerations *)

\* The settings of a deployment with one worker and of one with two
DefaultConfig == [MAX_WORKERS |-> 1]
PoolConfig == [MAX_WORKERS |-> 2]

PENDING == "pending"
RUNNING == "running"
COMPLETED == "completed"
FAILED == "failed"

\* Status written to the manifest by the finaliser
SUCCEEDED == "succeeded"

NoJob == 0
NoErr == [kind |-> "", text |-> ""]
Err(kind, text) == [kind |-> kind, text |-> text]

Range(s) == {s[i] : i \in 1..Len(s)}

\* Workspace names as character sequences (they are validated by a regex)
W1 == <<"w", "1">>
W2 == <<"w", "2">>
BadName == <<"b", "/", "n">>
Blank == <<>>
Workspaces == {W1, W2}
AllowedChars == {"w", "1", "2", "n", "b", "_", "-"}

\* The project file of the repository: b needs a, d needs c and b, e needs a
Actions == {"a", "b", "c", "d", "e"}
Needs == [a |-> <<>>, b |-> <<"a">>, c |-> <<>>, d |-> <<"c", "b">>, e |-> <<"a">>]

\* output_spec of each action, in dict order: <<privacy level, name, pattern>>
OutputSpec ==
    [a |-> << <<"highly_sensitive", "csv", "out/*.csv">> >>,
     b |-> << <<"moderately_sensitive", "png", "fig/*.png">> >>,
     c |-> << <<"moderately_sensitive", "txt", "log/*.txt">> >>,
     d |-> << <<"moderately_sensitive", "tab", "tab/*.csv">> >>,
     e |-> << <<"moderately_sensitive", "est", "est/*.csv">> >>]

\* The project file at a later commit: a declares a second output and the
\* outputs of c are reclassified
RevisedOutputSpec ==
    [OutputSpec EXCEPT
        !.a = << <<"highly_sensitive", "csv", "out/*.csv">>,
                 <<"moderately_sensitive", "log", "out/*.log">> >>,
        !.c = << <<"highly_sensitive", "txt", "log/*.txt">> >>]

\* Database names known to config.DATABASE_URLS (name -> url, "" = undefined)
DATABASE_URLS == [full |-> "mssql://full", slice |-> ""]

----------------------------------------------------------------------------
(* Store: tables job and job_request *)

\* Job.new_id() yields a fresh id; rows are kept in insertion order and the
\* id of a row is its position
insert_job(db, row) ==
    [db EXCEPT !.jobs = Append(@, [row EXCEPT !.id = Len(db.jobs) + 1])]

insert_request(db, job_request) ==
    [db EXCEPT !.reqs = Append(@, [id |-> job_request.id, original |-> job_request])]

\* Variant: the UPDATE statement without its WHERE clause
update_every_row(db, id, fields) ==
    [db EXCEPT !.jobs =
        [k \in 1..Len(@) |->
            [f \in DOMAIN @[k] |-> IF f \in DOMAIN fields THEN fields[f] ELSE @[k][f]]]]

update(db, id, fields) ==
    [db EXCEPT !.jobs[id] =
        [f \in DOMAIN @ |-> IF f \in DOMAIN fields THEN fields[f] ELSE @[f]]]

exists_where_request(db, request_id) ==
    \E i \in 1..Len(db.jobs) : db.jobs[i].job_request_id = request_id

\* Variant: the query has no condition on the workspace
find_active_in_any_workspace(db, workspace, action) ==
    {i \in 1..Len(db.jobs) :
        /\ db.jobs[i].action = action
        /\ db.jobs[i].status \in {PENDING, RUNNING}}

\* Variant: only Running jobs count as active
find_active_running_only(db, workspace, action) ==
    {i \in 1..Len(db.jobs) :
        /\ db.jobs[i].workspace = workspace
        /\ db.jobs[i].action = action
        /\ db.jobs[i].status \in {RUNNING}}

find_active(db, workspace, action) ==
    {i \in 1..Len(db.jobs) :
        /\ db.jobs[i].workspace = workspace
        /\ db.jobs[i].action = action
        /\ db.jobs[i].status \in {PENDING, RUNNING}}

count_where_status(db, status) ==
    Cardinality({i \in 1..Len(db.jobs) : db.jobs[i].status = status})

Min(S) == CHOOSE x \in S : \A y \in S : x <= y

----------------------------------------------------------------------------
(* Manifest queries used by the expander and by start_job *)

ManifestStatus(manifest, action) ==
    LET idx == {i \in 1..Len(manifest.actions) : manifest.actions[i].action = action}
    IN IF idx = {} THEN "none" ELSE manifest.actions[Min(idx)].status

FilesOfAction(manifest, action) ==
    {f \in DOMAIN manifest.files : manifest.files[f].created_by_action = action}

\* Variant: the files are not looked for on disk
list_outputs_outcome_from_manifest(ws, action) ==
    LET status == ManifestStatus(ws.manifest, action)
    IN IF status = "none" THEN "ActionNotRunError"
       ELSE IF status # SUCCEEDED THEN "ActionFailedError"
       ELSE "ok"

\* Outcome of list_outputs_from_action without ignore_errors: the name of the
\* exception raised, or "ok"
list_outputs_outcome(ws, action) ==
    LET status == ManifestStatus(ws.manifest, action)
    IN IF status = "none" THEN "ActionNotRunError"
       ELSE IF status # SUCCEEDED THEN "ActionFailedError"
       ELSE IF \E f \in FilesOfAction(ws.manifest, action) : f \notin ws.files
            THEN "MissingOutputError"
       ELSE "ok"

\* Variant: an action that failed counts as one that has not been run
action_has_successful_outputs_or_none(ws, action) ==
    LET outcome == list_outputs_outcome(ws, action)
    IN IF outcome = "ok" THEN "True" ELSE "None"

\* True / False / None
action_has_successful_outputs(ws, action) ==
    LET outcome == list_outputs_outcome(ws, action)
    IN IF outcome = "ok" THEN "True"
       ELSE IF outcome = "ActionFailedError" THEN "False"
       ELSE "None"

----------------------------------------------------------------------------
(* Expander: create_or_update_jobs.py *)

\* Variant: the guard never finds related jobs
related_jobs_exist_never(db, job_request) == FALSE

related_jobs_exist(db, job_request) == exists_where_request(db, job_request.id)

validate_job_request(job_request) ==
    IF job_request.workspace = Blank
    THEN Err("JobRequestError", "Workspace name cannot be blank")
    ELSE IF \E c \in Range(job_request.workspace) : c \notin AllowedChars
    THEN Err("JobRequestError",
             "Invalid workspace name (allowed are alphanumeric, dash and underscore)")
    ELSE IF job_request.database_name \notin DOMAIN DATABASE_URLS
    THEN Err("JobRequestError",
             "Invalid database name '" \o job_request.database_name
                \o "', allowed are: full, slice")
    ELSE IF DATABASE_URLS[job_request.database_name] = ""
    THEN Err("JobRequestError",
             "Database name '" \o job_request.database_name
                \o "' is not currently defined for backend 'tpp'")
    ELSE NoErr

\* Variant: force_run_dependencies is not read
force_run_actions_of_requested(job_request) ==
    [wildcard |-> FALSE,
     actions |-> Range(job_request.requested_actions)]

\* "*" when force_run_dependencies, else the requested actions
force_run_actions_of(job_request) ==
    [wildcard |-> job_request.force_run_dependencies,
     actions |-> Range(job_request.requested_actions)]

new_job(job_request, action, wait_for_job_ids) ==
    [id |-> NoJob,
     job_request_id |-> job_request.id,
     status |-> PENDING,
     workspace |-> job_request.workspace,
     database_name |-> job_request.database_name,
     action |-> action,
     wait_for_job_ids |-> wait_for_job_ids,
     requires_outputs_from |-> Needs[action],
     output_spec |-> OutputSpec[action],
     status_message |-> [text |-> "", stamp |-> -1]]

RECURSIVE recursively_add_jobs(_, _, _, _, _)
RECURSIVE add_required_jobs(_, _, _, _, _, _)
RECURSIVE add_required_jobs_new_only(_, _, _, _, _, _)

\* Result: [db, job, err]; job = NoJob is Python's None ("nothing to do")
recursively_add_jobs(db, ws, job_request, action, force_run_actions) ==
    LET already_active_jobs == find_active(db, job_request.workspace, action)
        forced == force_run_actions.wildcard \/ action \in force_run_actions.actions
        action_status == IF forced THEN "forced"
                         ELSE action_has_successful_outputs(ws, action)
    IN IF already_active_jobs # {}
       THEN [db |-> db, job |-> Min(already_active_jobs), err |-> NoErr]
       ELSE IF action_status = "True"
       THEN [db |-> db, job |-> NoJob, err |-> NoErr]
       ELSE IF action_status = "False"
       THEN [db |-> db, job |-> NoJob,
             err |-> Err("JobRequestError",
                         action \o " failed on a previous run and must be re-run")]
       ELSE LET req == add_required_jobs(db, ws, job_request, Needs[action],
                                         force_run_actions, <<>>)
            IN IF req.err # NoErr
               THEN [db |-> req.db, job |-> NoJob, err |-> req.err]
               ELSE [db |-> insert_job(req.db,
                                       new_job(job_request, action, req.wait_for_job_ids)),
                     job |-> Len(req.db.jobs) + 1,
                     err |-> NoErr]

\* Variant: only the jobs created for this request are waited for
add_required_jobs_new_only(db, ws, job_request, needs, force_run_actions, wait_for_job_ids) ==
    IF needs = <<>>
    THEN [db |-> db, wait_for_job_ids |-> wait_for_job_ids, err |-> NoErr]
    ELSE LET r == recursively_add_jobs(db, ws, job_request, Head(needs), force_run_actions)
         IN IF r.err # NoErr
            THEN [db |-> r.db, wait_for_job_ids |-> wait_for_job_ids, err |-> r.err]
            ELSE add_required_jobs_new_only(r.db, ws, job_request, Tail(needs),
                    force_run_actions,
                    IF r.job # NoJob /\ r.db.jobs[r.job].job_request_id = job_request.id
                    THEN Append(wait_for_job_ids, r.job)
                    ELSE wait_for_job_ids)

\* The loop over action_spec.needs: result [db, wait_for_job_ids, err]
add_required_jobs(db, ws, job_request, needs, force_run_actions, wait_for_job_ids) ==
    IF needs = <<>>
    THEN [db |-> db, wait_for_job_ids |-> wait_for_job_ids, err |-> NoErr]
    ELSE LET r == recursively_add_jobs(db, ws, job_request, Head(needs), force_run_actions)
         IN IF r.err # NoErr
            THEN [db |-> r.db, wait_for_job_ids |-> wait_for_job_ids, err |-> r.err]
            ELSE add_required_jobs(r.db, ws, job_request, Tail(needs), force_run_actions,
                    IF r.job # NoJob THEN Append(wait_for_job_ids, r.job)
                    ELSE wait_for_job_ids)

RECURSIVE add_requested_jobs(_, _, _, _, _)
\* The loop over job_request.requested_actions inside the transaction:
\* result [db, new_job_scheduled, err]
add_requested_jobs(db, ws, job_request, actions, new_job_scheduled) ==
    IF actions = <<>>
    THEN [db |-> db, new_job_scheduled |-> new_job_scheduled, err |-> NoErr]
    ELSE LET r == recursively_add_jobs(db, ws, job_request, Head(actions),
                                       force_run_actions_of(job_request))
         IN IF r.err # NoErr
            THEN [db |-> r.db, new_job_scheduled |-> new_job_scheduled, err |-> r.err]
            ELSE IF r.job = NoJob
            THEN [db |-> r.db, new_job_scheduled |-> new_job_scheduled,
                  err |-> Err("AttributeError", "'NoneType' object has no attribute")]
            ELSE add_requested_jobs(r.db, ws, job_request, Tail(actions),
                    new_job_scheduled \/ r.db.jobs[r.job].job_request_id = job_request.id)

\* Variant: new_job_scheduled is not tested
create_jobs_with_project_file_unchecked(db, ws, job_request) ==
    LET db1 == insert_request(db, job_request)
        r == add_requested_jobs(db1, ws, job_request, job_request.requested_actions, FALSE)
    IN [db |-> r.db, err |-> r.err]

\* Body of the `with transaction()` block: the working copy after the last
\* statement executed and the exception raised inside the block, if any
create_jobs_with_project_file(db, ws, job_request) ==
    LET db1 == insert_request(db, job_request)
        r == add_requested_jobs(db1, ws, job_request, job_request.requested_actions, FALSE)
    IN IF r.err # NoErr THEN [db |-> r.db, err |-> r.err]
       ELSE IF ~r.new_job_scheduled
       THEN [db |-> r.db,
             err |-> Err("JobRequestError",
                         "All requested actions were already scheduled to run")]
       ELSE [db |-> r.db, err |-> NoErr]

\* Variant: the message carries only str(exception)
failed_job_text_only(job_request, exception) ==
    [id |-> NoJob,
     job_request_id |-> job_request.id,
     status |-> FAILED,
     workspace |-> job_request.workspace,
     database_name |-> "",
     action |-> "",
     wait_for_job_ids |-> <<>>,
     requires_outputs_from |-> <<>>,
     output_spec |-> <<>>,
     status_message |-> [text |-> exception.text, stamp |-> -1]]

failed_job(job_request, exception) ==
    [id |-> NoJob,
     job_request_id |-> job_request.id,
     status |-> FAILED,
     workspace |-> job_request.workspace,
     database_name |-> "",
     action |-> "",
     wait_for_job_ids |-> <<>>,
     requires_outputs_from |-> <<>>,
     output_spec |-> <<>>,
     status_message |-> [text |-> exception.kind \o ": " \o exception.text, stamp |-> -1]]

\* Variant: the SavedJobRequest is not inserted
create_failed_job_unsaved(db, job_request, exception) ==
    insert_job(db, failed_job(job_request, exception))

\* create_failed_job: one transaction holding both inserts
create_failed_job(db, job_request, exception) ==
    insert_job(insert_request(db, job_request), failed_job(job_request, exception))

----------------------------------------------------------------------------
(* Outputs declared by the project and the files containers can produce *)

Files == {"out/1.csv", "out/1.log", "fig/1.png", "log/1.txt", "log/2.txt"}

\* Matches of a glob pattern among a set of files (sorted list in the code)
glob_volume_files(files, pattern) ==
    IF pattern = "out/*.csv" THEN files \cap {"out/1.csv"}
    ELSE IF pattern = "out/*.log" THEN files \cap {"out/1.log"}
    ELSE IF pattern = "fig/*.png" THEN files \cap {"fig/1.png"}
    ELSE IF pattern = "log/*.txt" THEN files \cap {"log/1.txt", "log/2.txt"}
    ELSE {}

\* What a container of the action can write into its volume
Producible(action) ==
    UNION {glob_volume_files(Files, OutputSpec[action][i][3]) :
              i \in 1..Len(OutputSpec[action])}

----------------------------------------------------------------------------
(* Status messages: text plus the minute shown by the "%Y-%m-%d %H:%M"     *)
(* timestamp appended by log(..., timestamp=True); NoStamp when the        *)
(* message carries no timestamp                                            *)

NoStamp == -1
MinNow == 9
MaxNow == 10

Message(text) == [text |-> text, stamp |-> NoStamp]
Stamped(text, t) == [text |-> text, stamp |-> t]
NoMessage == Message("")

\* message[:-1]: with the fixed-width timestamp the last character is the
\* units digit of the minute
AllButLast(message) ==
    IF message.stamp = NoStamp THEN [text |-> message.text, stamp |-> NoStamp, cut |-> TRUE]
    ELSE [text |-> message.text, stamp |-> message.stamp \div 10, cut |-> FALSE]

\* Variant: the whole message is compared, the last character included
log_comparing_whole(db, job, text, timestamp, t) ==
    LET message == IF timestamp THEN Stamped(text, t) ELSE Message(text)
    IN IF job.status_message # message
       THEN update(db, job.id, [status_message |-> message])
       ELSE db

\* log(job, message, timestamp): job is the row object the loop holds, the
\* result is the store after the conditional update
log(db, job, text, timestamp, t) ==
    LET message == IF timestamp THEN Stamped(text, t) ELSE Message(text)
        stored == job.status_message
        changed == IF timestamp
                   THEN IF stored # NoMessage
                        THEN AllButLast(stored) # AllButLast(message)
                        ELSE TRUE
                   ELSE stored # message
    IN IF changed THEN update(db, job.id, [status_message |-> message]) ELSE db

\* Variant: a job that failed is made Pending again, to be tried once more
mark_job_as_failed_to_retry(db, id, exception) ==
    update(db, id, [status |-> PENDING,
                    status_message |-> Message(exception.kind \o ": " \o exception.text)])

mark_job_as_failed(db, id, exception) ==
    update(db, id, [status |-> FAILED,
                    status_message |-> Message(exception.kind \o ": " \o exception.text)])

mark_job_as_running(db, id) ==
    update(db, id, [status |-> RUNNING, status_message |-> Message("Started")])

mark_job_as_completed(db, id) ==
    update(db, id, [status |-> COMPLETED,
                    status_message |-> Message("Completed successfully")])

\* select_values(Job, "status", id__in=job.wait_for_job_ids)
get_states_of_awaited_jobs(db, job) ==
    {db.jobs[i].status : i \in {k \in 1..Len(db.jobs) : k \in Range(job.wait_for_job_ids)}}

\* Variant: every dependency that has not failed counts as done
dependencies_completed_unless_failed(awaited_states) ==
    \A state \in awaited_states : state # FAILED

\* all(state == State.COMPLETED for state in awaited_states)
dependencies_completed(awaited_states) ==
    \A state \in awaited_states : state = COMPLETED

\* Variant: <= instead of <
job_running_capacity_available_inclusive(db) ==
    count_where_status(db, RUNNING) <= config.MAX_WORKERS

job_running_capacity_available(db) ==
    count_where_status(db, RUNNING) < config.MAX_WORKERS

----------------------------------------------------------------------------
(* Finaliser helpers: manage_jobs.py *)

Max(S) == CHOOSE x \in S : \A y \in S : x >= y

RECURSIVE join(_)
\* ", ".join(patterns)
join(patterns) ==
    IF patterns = <<>> THEN ""
    ELSE IF Len(patterns) = 1 THEN patterns[1]
    ELSE patterns[1] \o ", " \o join(Tail(patterns))

\* outputs: filename -> privacy level (a later pattern overwrites an earlier
\* one); unmatched_patterns: the patterns without any match, in spec order
find_matching_outputs(output_spec, volume_files) ==
    LET spec == output_spec
        matching(f) == {i \in 1..Len(spec) : f \in glob_volume_files(volume_files, spec[i][3])}
        matched == {f \in volume_files : matching(f) # {}}
        unmatched == SelectSeq(spec, LAMBDA t : glob_volume_files(volume_files, t[3]) = {})
    IN [outputs |-> [f \in matched |-> spec[Max(matching(f))][1]],
        unmatched_patterns |-> [i \in 1..Len(unmatched) |-> unmatched[i][3]]]

\* Variant: only the exit code decides
finalise_error_exit_code_only(exit_code, unmatched_patterns) ==
    IF exit_code # 0 THEN Err("JobError", "Job exited with an error code")
    ELSE NoErr

\* Variant: the unmatched patterns are looked at before the exit code
finalise_error_patterns_first(exit_code, unmatched_patterns) ==
    IF unmatched_patterns # <<>>
    THEN Err("JobError", "No outputs found matching: " \o join(unmatched_patterns))
    ELSE IF exit_code # 0 THEN Err("JobError", "Job exited with an error code")
    ELSE NoErr

\* The error finalise_job raises at its end, NoErr if none
finalise_error(exit_code, unmatched_patterns) ==
    IF exit_code # 0 THEN Err("JobError", "Job exited with an error code")
    ELSE IF unmatched_patterns # <<>>
    THEN Err("JobError", "No outputs found matching: " \o join(unmatched_patterns))
    ELSE NoErr

\* Strings that the code takes apart are sequences of characters
SAFE_ENVIRONMENT_VARIABLES ==
    {<<"P", "A", "T", "H">>,
     <<"P", "Y", "T", "H", "O", "N", "_", "V", "E", "R", "S", "I", "O", "N">>,
     <<"D", "E", "B", "I", "A", "N", "_", "F", "R", "O", "N", "T", "E", "N", "D">>,
     <<"D", "E", "B", "C", "O", "N", "F", "_", "N", "O", "N", "I", "N", "T", "E", "R", "A", "C", "T", "I", "V", "E", "_", "S", "E", "E", "N">>,
     <<"U", "B", "U", "N", "T", "U", "_", "V", "E", "R", "S", "I", "O", "N">>,
     <<"P", "Y", "E", "N", "V", "_", "S", "H", "E", "L", "L">>,
     <<"P", "Y", "E", "N", "V", "_", "V", "E", "R", "S", "I", "O", "N">>,
     <<"P", "Y", "T", "H", "O", "N", "U", "N", "B", "U", "F", "F", "E", "R", "E", "D">>}

REDACTED == <<"x", "x", "x", "x", "-", "R", "E", "D", "A", "C", "T", "E", "D", "-", "x", "x", "x", "x">>

\* line.split("=", 1): the part before the first "=" and the part after it
\* (every entry of Config.Env has the form NAME=value)
split_once(line) ==
    LET i == Min({k \in 1..Len(line) : line[k] = "="})
    IN <<SubSeq(line, 1, i - 1), SubSeq(line, i + 1, Len(line))>>

\* Variant: only DATABASE_URL is redacted
redact_environment_variables_database_url(env) ==
    [n \in 1..Len(env) |->
        LET key == split_once(env[n])[1]
            value == split_once(env[n])[2]
        IN IF key = <<"D", "A", "T", "A", "B", "A", "S", "E", "_", "U", "R", "L">>
           THEN key \o <<"=">> \o REDACTED
           ELSE key \o <<"=">> \o value]

\* Config.Env of the container metadata after redaction
redact_environment_variables(env) ==
    [n \in 1..Len(env) |->
        LET key == split_once(env[n])[1]
            value == split_once(env[n])[2]
        IN IF key \notin SAFE_ENVIRONMENT_VARIABLES
           THEN key \o <<"=">> \o REDACTED
           ELSE key \o <<"=">> \o value]

\* get_container_metadata: what finalise_job keeps of docker inspect
get_container_metadata(c) == [Env |-> redact_environment_variables(c.env)]

\* t is int(time.time()) when finalise_job builds the metadata
get_job_metadata(job, container_metadata, outputs, error, t) ==
    [action |-> job.action,
     job_id |-> job.id,
     status |-> IF error # NoErr THEN FAILED ELSE SUCCEEDED,
     completed_at |-> t,
     container_metadata |-> container_metadata,
     outputs |-> outputs]

\* Variant: as without ignore_errors, nothing is listed for an action whose
\* previous run did not succeed
list_outputs_from_action_if_succeeded(manifest, action) ==
    IF ManifestStatus(manifest, action) = SUCCEEDED THEN FilesOfAction(manifest, action) ELSE {}

\* list_outputs_from_action(..., ignore_errors=True)
list_outputs_from_action(manifest, action) == FilesOfAction(manifest, action)

\* Variant: the entries of the previous run of the action are kept
update_manifest_keeping_previous(manifest, job_metadata) ==
    LET action == job_metadata.action
        new == DOMAIN job_metadata.outputs
    IN [files |-> [f \in DOMAIN manifest.files \cup new |->
                      IF f \in new
                      THEN [created_by_action |-> action,
                            privacy_level |-> job_metadata.outputs[f]]
                      ELSE manifest.files[f]],
        actions |-> Append(SelectSeq(manifest.actions, LAMBDA e : e.action # action),
                           [action |-> action,
                            status |-> job_metadata.status,
                            job_id |-> job_metadata.job_id,
                            completed_at |-> job_metadata.completed_at])]

\* Variant: only a run that succeeded is recorded in `actions`
update_manifest_of_successful_runs(manifest, job_metadata) ==
    LET action == job_metadata.action
        kept == {f \in DOMAIN manifest.files : manifest.files[f].created_by_action # action}
        new == DOMAIN job_metadata.outputs
        others == SelectSeq(manifest.actions, LAMBDA e : e.action # action)
    IN [files |-> [f \in kept \cup new |->
                      IF f \in new
                      THEN [created_by_action |-> action,
                            privacy_level |-> job_metadata.outputs[f]]
                      ELSE manifest.files[f]],
        actions |-> IF job_metadata.status # SUCCEEDED THEN others
                    ELSE Append(others,
                                [action |-> action,
                                 status |-> job_metadata.status,
                                 job_id |-> job_metadata.job_id,
                                 completed_at |-> job_metadata.completed_at])]

\* files.sort() in update_manifest: the list holds (name, details) pairs, and
\* two pairs with the same name, one kept from another action and one of
\* the new outputs, are ordered by comparing their dicts, which raises
update_manifest_error(manifest, job_metadata) ==
    LET action == job_metadata.action
        kept == {f \in DOMAIN manifest.files : manifest.files[f].created_by_action # action}
        new == DOMAIN job_metadata.outputs
    IN IF kept \cap new # {}
       THEN Err("TypeError", "'<' not supported between instances of 'dict' and 'dict'")
       ELSE NoErr

update_manifest(manifest, job_metadata) ==
    LET action == job_metadata.action
        kept == {f \in DOMAIN manifest.files : manifest.files[f].created_by_action # action}
        new == DOMAIN job_metadata.outputs
    IN [files |-> [f \in kept \cup new |->
                      IF f \in new
                      THEN [created_by_action |-> action,
                            privacy_level |-> job_metadata.outputs[f]]
                      ELSE manifest.files[f]],
        actions |-> Append(SelectSeq(manifest.actions, LAMBDA e : e.action # action),
                           [action |-> action,
                            status |-> job_metadata.status,
                            job_id |-> job_metadata.job_id,
                            completed_at |-> job_metadata.completed_at])]

EmptyManifest == [files |-> <<>>, actions |-> <<>>]

\* Content of a file whose write_text has begun and not ended: no JSON document
Torn == [files |-> <<>>, actions |-> <<>>, torn |-> TRUE]

\* metadata/manifest.tmp: absent, or a file with some content
NoTmp == [exists |-> FALSE, content |-> EmptyManifest]

\* Order in which the outputs dict is traversed (sorted file names)
FileOrder == <<"fig/1.png", "log/1.txt", "log/2.txt", "out/1.csv", "out/1.log">>
FirstOf(files) == FileOrder[Min({i \in 1..Len(FileOrder) : FileOrder[i] \in files})]

----------------------------------------------------------------------------
(* finalise_job as a whole: the workspace on disk after an uninterrupted    *)
(* finalise_job of a job whose container c still exists                     *)

\* metadata/<action>.log of a workspace: the file is overwritten
SetLog(logs, action, id) == {e \in logs : e[1] # action} \cup {<<action, id>>}

\* JOB_LOG_DIR/<month>/<container name>/metadata.json: one file per job
SetMetadata(logdir, job_metadata) ==
    {e \in logdir : e.job_id # job_metadata.job_id}
        \cup {[job_id |-> job_metadata.job_id, status |-> job_metadata.status,
                completed_at |-> job_metadata.completed_at,
                container_metadata |-> job_metadata.container_metadata]}

finalise_job(ws, job, c, t) ==
    LET m == find_matching_outputs(job.output_spec, c.files)
        error == finalise_error(c.exit_code, m.unmatched_patterns)
        job_metadata == get_job_metadata(job, get_container_metadata(c), m.outputs, error, t)
        outputs == DOMAIN m.outputs
        existing_files == list_outputs_from_action(ws.manifest, job.action)
        files_to_remove == existing_files \ outputs
        manifest == update_manifest(ws.manifest, job_metadata)
        moderately == {f \in outputs : m.outputs[f] = "moderately_sensitive"}
    IN IF update_manifest_error(ws.manifest, job_metadata) # NoErr
       THEN \* left by the exception of update_manifest
            [ws EXCEPT !.logdir = SetMetadata(@, job_metadata),
                       !.logs = SetLog(@, job.action, job.id),
                       !.files = (@ \cup outputs) \ files_to_remove]
       ELSE
       [ws EXCEPT !.logdir = SetMetadata(@, job_metadata),
                  !.logs = SetLog(@, job.action, job.id),
                  !.files = (@ \cup outputs) \ files_to_remove,
                  !.mlogs = SetLog(@, job.action, job.id),
                  !.mfiles = (@ \cup moderately) \ files_to_remove,
                  !.mmanifest = manifest,
                  !.mtmp = NoTmp,
                  !.manifest = manifest,
                  !.tmp = NoTmp]

----------------------------------------------------------------------------
(* State *)

JobIds == 1..MaxJobs

EmptyDb == [jobs |-> <<>>, reqs |-> <<>>]

\* Job requests the coordinator can return: well-formed ones for the two
\* workspaces and one that validate_job_request rejects
ValidRequests ==
    [id : 1..MaxRequests,
     workspace : {W1},
     requested_actions : {<<"a">>, <<"b">>, <<"c", "b">>},
     force_run_dependencies : {FALSE},
     database_name : {"full"}]
    \cup
    [id : 1..MaxRequests,
     workspace : {W1},
     requested_actions : {<<"b">>},
     force_run_dependencies : {TRUE},
     database_name : {"full"}]
    \cup
    [id : 1..MaxRequests,
     workspace : {W2},
     requested_actions : {<<"a">>},
     force_run_dependencies : {FALSE},
     database_name : {"full"}]

InvalidRequests ==
    [id : 1..MaxRequests,
     workspace : {BadName},
     requested_actions : {<<"a">>},
     force_run_dependencies : {FALSE},
     database_name : {"full"}]

JobRequests == ValidRequests \cup InvalidRequests

NoRequest == [id |-> 0, workspace |-> Blank, requested_actions |-> <<>>,
              force_run_dependencies |-> FALSE, database_name |-> ""]

NoTx == [phase |-> "none", req |-> NoRequest, work |-> EmptyDb, plan |-> <<>>, err |-> NoErr]

NoContainer == [container |-> "absent", exit_code |-> 0, volume |-> FALSE, files |-> {},
                env |-> <<>>,
                runs |-> 0, populated |-> 0]

NoMetadata == [action |-> "", job_id |-> NoJob, status |-> "", completed_at |-> NoStamp,
               container_metadata |-> [Env |-> <<>>],
               outputs |-> <<>>]

\* Local variables of finalise_job
NoFin == [job_metadata |-> NoMetadata, error |-> NoErr, to_copy |-> {},
          files_to_remove |-> {}, to_delete |-> {}, manifest |-> EmptyManifest]

IdleLoop == [pc |-> "iter", todo |-> <<>>, job |-> NoJob, err |-> NoErr, fin |-> NoFin]

\* One workspace on disk: high privacy (files, logs, manifest), medium
\* privacy (mfiles, mlogs, mmanifest) and its part of JOB_LOG_DIR
EmptyWorkspace == [files |-> {}, logs |-> {}, manifest |-> EmptyManifest, tmp |-> NoTmp,
                   mfiles |-> {}, mlogs |-> {}, mmanifest |-> EmptyManifest, mtmp |-> NoTmp,
                   logdir |-> {}]

\* A response of the coordinator: `results` is what its body holds when the
\* body is a JSON document
NoResponse == [status_code |-> 0, text |-> "", results |-> <<>>]

\* The sync process: its position in sync(), the job requests of the last
\* GET, the lines it logged, and the last call of api_request with the
\* exception that left it
NoSync == [pc |-> "get", results |-> <<>>, log |-> <<>>, posted |-> <<>>,
           call |-> [method |-> "", response |-> NoResponse], raised |-> NoErr]

\* start_job on one job: its position, the locals it computes and the
\* command line docker.run executes
NoStart == [pc |-> "", run_command |-> <<>>, database_name |-> "", slug |-> "",
            allow_network_access |-> FALSE, env |-> <<>>, run_args |-> <<>>]

\* glob_volume_files on one volume: its position, the files of the volume,
\* the patterns asked for, the lines find printed and the result; the dict
\* `matches` is kept as the list of its values in the order of glob_patterns
NoGlob == [pc |-> "", volume |-> {}, glob_patterns |-> <<>>, stdout |-> {},
           matches |-> <<>>]

NoHist == [returned |-> {}, raised |-> {}, noop |-> FALSE,
           before |-> EmptyWorkspace, container |-> NoContainer, first |-> NoStamp,
           written |-> "no", env |-> <<>>, failures |-> 0, sync |-> NoSync,
           start |-> NoStart, glob |-> NoGlob, cyclic |-> {}]

Init ==
    /\ store = EmptyDb
    /\ tx = NoTx
    /\ loop = IdleLoop
    /\ docker = [j \in JobIds |-> NoContainer]
    /\ disk = [w \in Workspaces |-> EmptyWorkspace]
    /\ kills = 0
    /\ config = DefaultConfig
    /\ now = MinNow
    /\ hist = NoHist

----------------------------------------------------------------------------
(* The sync process: create_or_update_jobs, one SQL statement per step      *)

\* Content of the database file while a transaction that executed the
\* statements leading to `work` is open: its writes are not in the file
\* until COMMIT
\* Variant: no BEGIN, every statement is committed as it is executed
transaction_autocommit(committed, work) == work

transaction(committed, work) == committed

\* What the environment answers while the request is expanded: git fetches
\* the commit and the project file, which then parses or not
Faults == {"none", "GitError", "ProjectValidationError"}

\* The exception create_jobs raises before it opens the transaction
create_jobs_error(job_request, fault) ==
    LET verr == validate_job_request(job_request)
    IN IF verr # NoErr THEN verr
       ELSE IF fault = "GitError" THEN Err("GitError", "Error fetching commit")
       ELSE IF fault = "ProjectValidationError"
       THEN Err("ProjectValidationError", "Invalid project file")
       ELSE NoErr

Returned(job_request, err) ==
    [hist EXCEPT !.returned = @ \cup {job_request.id},
                 !.raised = IF err # NoErr THEN @ \cup {<<job_request.id, err>>} ELSE @]

\* Id of the job request of the rows that are in the table at start-up
EarlierRequest == 0

\* The rows inserted for the requests the coordinator issues
Issued(db) == {i \in 1..Len(db.jobs) : db.jobs[i].job_request_id # EarlierRequest}

\* The coordinator numbers its requests consecutively
KnownRequest(job_request) ==
    job_request.id <= Cardinality({store.reqs[i].id : i \in 1..Len(store.reqs)}
                                      \ {EarlierRequest}) + 1

\* create_or_update_jobs up to the first statement inside the transaction:
\* the guard, validation, git and project parsing (an exception raised there
\* is projected by create_failed_job at once), and BEGIN + insert of the
\* SavedJobRequest.  The rows the recursion inserts are executed one per step.
CreateOrUpdateJobs(job_request, fault) ==
    /\ tx.phase = "none"
    /\ KnownRequest(job_request)
    /\ UNCHANGED <<loop, docker, disk, kills, config, now>>
    /\ IF related_jobs_exist(store, job_request)
       THEN /\ hist' = [hist EXCEPT !.noop = TRUE]
            /\ UNCHANGED <<store, tx>>
       ELSE /\ Cardinality(Issued(store)) < MaxJobs
            /\ LET perr == create_jobs_error(job_request, fault)
                   r == create_jobs_with_project_file(store, disk[job_request.workspace],
                                                      job_request)
                   work == insert_request(store, job_request)
               IN IF perr # NoErr
                  THEN /\ store' = create_failed_job(store, job_request, perr)
                       /\ hist' = Returned(job_request, perr)
                       /\ UNCHANGED tx
                  ELSE /\ Cardinality(Issued(r.db)) <= MaxJobs
                       /\ tx' = [phase |-> "open", req |-> job_request, work |-> work,
                                 plan |-> SubSeq(r.db.jobs, Len(store.jobs) + 1,
                                                 Len(r.db.jobs)),
                                 err |-> r.err]
                       /\ store' = transaction(store, work)
                       /\ UNCHANGED hist

\* insert(job) inside the transaction
TxInsert ==
    /\ tx.phase = "open"
    /\ tx.plan # <<>>
    /\ tx' = [tx EXCEPT !.work = [@ EXCEPT !.jobs = Append(@, Head(tx.plan))],
                        !.plan = Tail(@)]
    /\ store' = transaction(store, tx'.work)
    /\ UNCHANGED <<loop, docker, disk, kills, hist, config, now>>

\* Leaving the `with` block normally: COMMIT
TxCommit ==
    /\ tx.phase = "open"
    /\ tx.plan = <<>>
    /\ tx.err = NoErr
    /\ store' = tx.work
    /\ tx' = NoTx
    /\ hist' = Returned(tx.req, NoErr)
    /\ UNCHANGED <<loop, docker, disk, kills, config, now>>

\* Leaving the `with` block by an exception: ROLLBACK, then the handler in
\* create_or_update_jobs runs create_failed_job
TxRaise ==
    /\ tx.phase = "open"
    /\ tx.plan = <<>>
    /\ tx.err # NoErr
    /\ store' = create_failed_job(store, tx.req, tx.err)
    /\ tx' = NoTx
    /\ hist' = Returned(tx.req, tx.err)
    /\ UNCHANGED <<loop, docker, disk, kills, config, now>>

\* The sync process is killed: an open transaction is never committed
KillSync ==
    /\ tx.phase # "none"
    /\ kills < MaxKills
    /\ kills' = kills + 1
    /\ tx' = NoTx
    /\ UNCHANGED <<store, loop, docker, disk, hist, config, now>>

SyncNext ==
    \/ \E job_request \in JobRequests, fault \in Faults :
           CreateOrUpdateJobs(job_request, fault)
    \/ TxInsert
    \/ TxCommit
    \/ TxRaise
    \/ KillSync

----------------------------------------------------------------------------
(* The run process: run.py handle_jobs and the handlers, manage_jobs.py     *)

RECURSIVE SortedSeq(_)
SortedSeq(S) == IF S = {} THEN <<>> ELSE <<Min(S)>> \o SortedSeq(S \ {Min(S)})

\* An UPDATE needs the write lock of the database file, which an open
\* transaction of the sync process holds
DbFree == tx.phase # "open"

Done == [loop EXCEPT !.pc = "iter", !.todo = Tail(@), !.job = NoJob, !.err = NoErr,
                     !.fin = NoFin]
Goto(pc) == [loop EXCEPT !.pc = pc]

\* find_where(Job, status__in=[PENDING, RUNNING]): copies of the rows
find_where_active(db) ==
    LET ids == SortedSeq({i \in 1..Len(db.jobs) : db.jobs[i].status \in {PENDING, RUNNING}})
    IN [k \in 1..Len(ids) |-> db.jobs[ids[k]]]

\* handle_jobs: the query; the loop then handles the rows it returned
HandleJobs ==
    /\ loop.pc = "iter"
    /\ loop.todo = <<>>
    /\ find_where_active(store) # <<>>
    /\ loop' = [loop EXCEPT !.todo = find_where_active(store)]
    /\ UNCHANGED <<store, tx, docker, disk, kills, hist, config, now>>

\* Variant: a failed dependency is waited for like an unfinished one
HandlePendingJobWaitingForFailed ==
    /\ loop.pc = "iter"
    /\ loop.todo # <<>>
    /\ DbFree
    /\ LET job == Head(loop.todo)
           id == job.id
           awaited_states == get_states_of_awaited_jobs(store, job)
       IN /\ job.status = PENDING
          /\ IF dependencies_completed(awaited_states)
             THEN IF ~job_running_capacity_available(store)
                  THEN /\ store' = log(store, job, "Waiting for available workers", TRUE, now)
                       /\ loop' = Done
                  ELSE /\ store' = log(store, job, "Starting", FALSE, now)
                       /\ loop' = [loop EXCEPT !.pc = "start_job", !.job = id]
             ELSE /\ store' = log(store, job, "Waiting on dependencies", TRUE, now)
                  /\ loop' = Done
    /\ UNCHANGED <<tx, docker, disk, kills, hist, config, now>>

HandlePendingJob ==
    /\ loop.pc = "iter"
    /\ loop.todo # <<>>
    /\ DbFree
    /\ LET job == Head(loop.todo)
           id == job.id
           awaited_states == get_states_of_awaited_jobs(store, job)
       IN /\ job.status = PENDING
          /\ IF FAILED \in awaited_states
             THEN /\ store' = mark_job_as_failed(store, id,
                                 Err("JobError", "Not starting as dependency failed"))
                  /\ loop' = Done
             ELSE IF dependencies_completed(awaited_states)
             THEN IF ~job_running_capacity_available(store)
                  THEN /\ store' = log(store, job, "Waiting for available workers", TRUE, now)
                       /\ loop' = Done
                  ELSE /\ store' = log(store, job, "Starting", FALSE, now)
                       /\ loop' = [loop EXCEPT !.pc = "start_job", !.job = id]
             ELSE /\ store' = log(store, job, "Waiting on dependencies", TRUE, now)
                  /\ loop' = Done
    /\ UNCHANGED <<tx, docker, disk, kills, hist, config, now>>

\* docker.container_exists and docker.container_is_running, on the record
\* kept for the job's container
container_exists(c) == c.container # "absent"
container_is_running(c) == c.container = "running"

\* Variant: a container that exists counts as running
job_still_running_while_exists(c) == container_exists(c)

job_still_running(c) == container_is_running(c)

\* start_job: the container already exists
StartJobExists ==
    /\ loop.pc = "start_job"
    /\ container_exists(docker[loop.job])
    /\ loop' = Goto("mark_running")
    /\ UNCHANGED <<store, tx, docker, disk, kills, hist, config, now>>

\* Variant: a file that is missing from the disk raises nothing
list_outputs_error_unless_missing(ws, action) ==
    LET outcome == list_outputs_outcome(ws, action)
    IN IF outcome \in {"ok", "MissingOutputError"} THEN NoErr
       ELSE IF outcome = "ActionNotRunError"
       THEN Err(outcome, action \o " has not been run")
       ELSE Err(outcome, action \o " failed")

\* The JobError list_outputs_from_action raises for a required action
list_outputs_error(ws, action) ==
    LET outcome == list_outputs_outcome(ws, action)
        missing == {f \in FilesOfAction(ws.manifest, action) : f \notin ws.files}
    IN IF outcome = "ok" THEN NoErr
       ELSE IF outcome = "ActionNotRunError"
       THEN Err(outcome, action \o " has not been run")
       ELSE IF outcome = "ActionFailedError"
       THEN Err(outcome, action \o " failed")
       ELSE Err(outcome, "Output " \o FirstOf(missing) \o " missing from " \o action)

\* start_job: create_and_populate_volume
StartJobVolume ==
    /\ loop.pc = "start_job"
    /\ ~container_exists(docker[loop.job])
    /\ LET job == store.jobs[loop.job]
           ws == disk[job.workspace]
           needs == job.requires_outputs_from
           bad == {i \in 1..Len(needs) : list_outputs_error(ws, needs[i]) # NoErr}
           input_files == UNION {list_outputs_from_action(ws.manifest, needs[i]) :
                                    i \in 1..Len(needs)}
       IN IF bad # {}
          THEN /\ loop' = [loop EXCEPT !.pc = "mark_failed",
                                       !.err = list_outputs_error(ws, needs[Min(bad)])]
               /\ UNCHANGED docker
          ELSE /\ docker' = [docker EXCEPT ![loop.job].volume = TRUE,
                                           ![loop.job].files = @ \cup input_files,
                                           ![loop.job].populated = @ + 1]
               /\ loop' = Goto("start_run")
    /\ UNCHANGED <<store, tx, disk, kills, hist, config, now>>

\* start_job: image check and docker.run
StartJobRun(image_exists_locally) ==
    /\ loop.pc = "start_run"
    /\ IF ~image_exists_locally
       THEN /\ loop' = [loop EXCEPT !.pc = "mark_failed",
                           !.err = Err("JobError", "Docker image is not currently available")]
            /\ UNCHANGED docker
       ELSE /\ docker' = [docker EXCEPT ![loop.job].container = "running",
                                        ![loop.job].runs = @ + 1]
            /\ loop' = Goto("mark_running")
    /\ UNCHANGED <<store, tx, disk, kills, hist, config, now>>

MarkJobAsRunning ==
    /\ loop.pc = "mark_running"
    /\ DbFree
    /\ store' = mark_job_as_running(store, loop.job)
    /\ loop' = Done
    /\ UNCHANGED <<tx, docker, disk, kills, hist, config, now>>

\* except JobError, in handle_pending_job and in handle_running_job
MarkJobAsFailed ==
    /\ loop.pc = "mark_failed"
    /\ DbFree
    /\ store' = mark_job_as_failed(store, loop.job, loop.err)
    /\ loop' = Goto("cleanup")
    /\ UNCHANGED <<tx, docker, disk, kills, hist, config, now>>

MarkJobAsCompleted ==
    /\ loop.pc = "mark_completed"
    /\ DbFree
    /\ store' = mark_job_as_completed(store, loop.job)
    /\ loop' = Goto("cleanup")
    /\ UNCHANGED <<tx, docker, disk, kills, hist, config, now>>

cleanup_job(d) == [d EXCEPT !.container = "absent", !.exit_code = 0,
                            !.volume = FALSE, !.files = {}, !.env = <<>>]

CleanupJob ==
    /\ loop.pc = "cleanup"
    /\ docker' = [docker EXCEPT ![loop.job] = cleanup_job(@)]
    /\ loop' = Done
    /\ UNCHANGED <<store, tx, disk, kills, hist, config, now>>

HandleRunningJob ==
    /\ loop.pc = "iter"
    /\ loop.todo # <<>>
    /\ DbFree
    /\ LET job == Head(loop.todo)
           id == job.id
       IN /\ job.status = RUNNING
          /\ IF job_still_running(docker[id])
             THEN /\ store' = log(store, job, "Running", TRUE, now)
                  /\ loop' = Done
             ELSE /\ store' = log(store, job, "Finished, copying outputs", FALSE, now)
                  /\ loop' = [loop EXCEPT !.pc = "finalise", !.job = id]
    /\ UNCHANGED <<tx, docker, disk, kills, hist, config, now>>

\* Variant: finalise_job goes on without the metadata of the container
FinaliseJobUninspected ==
    /\ loop.pc = "finalise"
    /\ LET job == store.jobs[loop.job]
           c == docker[loop.job]
       IN /\ disk' = [disk EXCEPT ![job.workspace] = finalise_job(@, job, c, now)]
          /\ loop' = IF c.container = "absent"
                     THEN [loop EXCEPT !.pc = "mark_failed",
                              !.err = Err("JobError", "Job container has vanished")]
                     ELSE IF finalise_error(c.exit_code,
                                find_matching_outputs(job.output_spec, c.files)
                                    .unmatched_patterns) # NoErr
                     THEN [loop EXCEPT !.pc = "mark_failed",
                              !.err = finalise_error(c.exit_code,
                                         find_matching_outputs(job.output_spec, c.files)
                                             .unmatched_patterns)]
                     ELSE Goto("mark_completed")
    /\ UNCHANGED <<store, tx, docker, kills, hist, config, now>>

\* Variant: finalise_job stores the status it computed for metadata.json
\* in the job table itself
FinaliseJobWritingStatus ==
    /\ loop.pc = "finalise"
    /\ LET job == store.jobs[loop.job]
           c == docker[loop.job]
           error == finalise_error(c.exit_code,
                        find_matching_outputs(job.output_spec, c.files).unmatched_patterns)
       IN IF c.container = "absent"
          THEN /\ loop' = [loop EXCEPT !.pc = "mark_failed",
                              !.err = Err("JobError", "Job container has vanished")]
               /\ UNCHANGED <<disk, store>>
          ELSE /\ disk' = [disk EXCEPT ![job.workspace] = finalise_job(@, job, c, now)]
               /\ store' = IF error # NoErr
                           THEN mark_job_as_failed(store, loop.job, error)
                           ELSE mark_job_as_completed(store, loop.job)
               /\ loop' = IF error # NoErr
                          THEN [loop EXCEPT !.pc = "mark_failed", !.err = error]
                          ELSE Goto("mark_completed")
    /\ UNCHANGED <<tx, docker, kills, hist, config, now>>

\* finalise_job, run without interruption.  The TypeError of update_manifest
\* is no JobError: handle_running_job has no handler for it, its `finally`
\* runs cleanup_job, and the exception ends the process, which is started
\* again
FinaliseJob ==
    /\ loop.pc = "finalise"
    /\ LET job == store.jobs[loop.job]
           c == docker[loop.job]
           m == find_matching_outputs(job.output_spec, c.files)
           error == finalise_error(c.exit_code, m.unmatched_patterns)
           job_metadata == get_job_metadata(job, get_container_metadata(c), m.outputs,
                                            error, now)
       IN IF c.container = "absent"
          THEN /\ loop' = [loop EXCEPT !.pc = "mark_failed",
                              !.err = Err("JobError", "Job container has vanished")]
               /\ UNCHANGED <<disk, docker>>
          ELSE IF update_manifest_error(disk[job.workspace].manifest, job_metadata) # NoErr
          THEN /\ disk' = [disk EXCEPT ![job.workspace] = finalise_job(@, job, c, now)]
               /\ docker' = [docker EXCEPT ![loop.job] = cleanup_job(@)]
               /\ loop' = IdleLoop
          ELSE /\ disk' = [disk EXCEPT ![job.workspace] = finalise_job(@, job, c, now)]
               /\ loop' = IF error # NoErr
                          THEN [loop EXCEPT !.pc = "mark_failed", !.err = error]
                          ELSE Goto("mark_completed")
               /\ UNCHANGED docker
    /\ UNCHANGED <<store, tx, kills, hist, config, now>>

\* The container stops by itself, having written some of its outputs
ContainerExits(id, exit_code, produced) ==
    /\ docker[id].container = "running"
    /\ docker' = [docker EXCEPT ![id].container = "exited",
                                ![id].exit_code = exit_code,
                                ![id].files = @ \cup produced]
    /\ UNCHANGED <<store, tx, loop, disk, kills, hist, config, now>>

\* The run process is killed and restarted: main() starts a new iteration
KillRun ==
    /\ loop # IdleLoop
    /\ kills < MaxKills
    /\ kills' = kills + 1
    /\ loop' = IdleLoop
    /\ UNCHANGED <<store, tx, docker, disk, hist, config, now>>

RunNext ==
    \/ HandleJobs
    \/ HandlePendingJob
    \/ StartJobExists
    \/ StartJobVolume
    \/ \E image_exists_locally \in BOOLEAN : StartJobRun(image_exists_locally)
    \/ MarkJobAsRunning
    \/ MarkJobAsFailed
    \/ MarkJobAsCompleted
    \/ CleanupJob
    \/ HandleRunningJob
    \/ FinaliseJob
    \/ KillRun

\* Outputs a container leaves behind: nothing or everything it declares
Outcomes(action) == {{}, Producible(action)}

EnvNext ==
    \E id \in {i \in 1..Len(store.jobs) : store.jobs[i].action \in Actions} :
        \E exit_code \in {0, 1}, produced \in Outcomes(store.jobs[id].action) :
            ContainerExits(id, exit_code, produced)

Next == SyncNext \/ RunNext \/ EnvNext

Spec == Init /\ [][Next]_vars

----------------------------------------------------------------------------
(* The earlier revision of manage_jobs.py: start_job returns early only    *)
(* while the job's container is still running                              *)

\* start_job: `if job_still_running(job): return`
V2StartJobStillRunning ==
    /\ loop.pc = "start_job"
    /\ job_still_running(docker[loop.job])
    /\ loop' = Goto("mark_running")
    /\ UNCHANGED <<store, tx, docker, disk, kills, config, now, hist>>

\* create_and_populate_volume of that revision: create_volume is idempotent,
\* the checkout and the outputs of the required actions are copied in; the
\* .success marker of an action's output directory is read off the manifest
V2StartJobVolume ==
    /\ loop.pc = "start_job"
    /\ ~job_still_running(docker[loop.job])
    /\ docker[loop.job].populated < MaxPopulated
    /\ LET job == store.jobs[loop.job]
           ws == disk[job.workspace]
           needs == job.requires_outputs_from
           bad == {i \in 1..Len(needs) : ManifestStatus(ws.manifest, needs[i]) # SUCCEEDED}
           input_files == UNION {FilesOfAction(ws.manifest, needs[i]) : i \in 1..Len(needs)}
       IN IF bad # {}
          THEN /\ loop' = [loop EXCEPT !.pc = "mark_failed",
                              !.err = Err("JobError",
                                          "Unexpected missing output for '{action}'")]
               /\ UNCHANGED docker
          ELSE /\ docker' = [docker EXCEPT ![loop.job].volume = TRUE,
                                           ![loop.job].files = @ \cup input_files,
                                           ![loop.job].populated = @ + 1]
               /\ loop' = Goto("start_run")
    /\ UNCHANGED <<store, tx, disk, kills, config, now, hist>>

\* docker.run: `docker run --name` fails when a container of that name
\* exists; the CalledProcessError is not a JobError, it leaves handle_jobs
\* and main, and the process is started again
V2StartJobRun ==
    /\ loop.pc = "start_run"
    /\ IF container_exists(docker[loop.job])
       THEN /\ loop' = IdleLoop
            /\ UNCHANGED docker
       ELSE /\ docker' = [docker EXCEPT ![loop.job].container = "running",
                                        ![loop.job].runs = @ + 1]
            /\ loop' = Goto("mark_running")
    /\ UNCHANGED <<store, tx, disk, kills, config, now, hist>>

V2Requests ==
    [id : 1..MaxRequests,
     workspace : {W1},
     requested_actions : {<<"a">>, <<"b">>},
     force_run_dependencies : {FALSE},
     database_name : {"full"}]

V2SyncNext ==
    \/ \E job_request \in V2Requests : CreateOrUpdateJobs(job_request, "none")
    \/ TxInsert
    \/ TxCommit
    \/ TxRaise

V2RunNext ==
    \/ HandleJobs
    \/ HandlePendingJob
    \/ V2StartJobStillRunning
    \/ V2StartJobVolume
    \/ V2StartJobRun
    \/ MarkJobAsRunning
    \/ MarkJobAsFailed
    \/ MarkJobAsCompleted
    \/ CleanupJob
    \/ HandleRunningJob
    \/ FinaliseJob
    \/ KillRun

NextV2 == V2SyncNext \/ V2RunNext \/ EnvNext

SpecV2 == Init /\ [][NextV2]_vars

----------------------------------------------------------------------------
(* A deployment with two workers: the same program, fed with requests whose *)
(* jobs can run side by side                                                 *)

PoolRequests ==
    [id : 1..MaxRequests,
     workspace : {W1},
     requested_actions : {<<"a">>, <<"a", "c">>, <<"b">>},
     force_run_dependencies : {FALSE},
     database_name : {"full"}]
    \cup
    [id : 1..MaxRequests,
     workspace : {W1},
     requested_actions : {<<"b">>},
     force_run_dependencies : {TRUE},
     database_name : {"full"}]

InitPool ==
    /\ store = EmptyDb
    /\ tx = NoTx
    /\ loop = IdleLoop
    /\ docker = [j \in JobIds |-> NoContainer]
    /\ disk = [w \in Workspaces |-> EmptyWorkspace]
    /\ kills = 0
    /\ config = PoolConfig
    /\ now = MinNow
    /\ hist = NoHist

PoolSyncNext ==
    \/ \E job_request \in PoolRequests : CreateOrUpdateJobs(job_request, "none")
    \/ TxInsert
    \/ TxCommit
    \/ TxRaise

\* The run process, never killed: start_job never finds a container of an
\* earlier attempt
PoolRunNext ==
    \/ HandleJobs
    \/ HandlePendingJob
    \/ StartJobVolume
    \/ \E image_exists_locally \in BOOLEAN : StartJobRun(image_exists_locally)
    \/ MarkJobAsRunning
    \/ MarkJobAsFailed
    \/ MarkJobAsCompleted
    \/ CleanupJob
    \/ HandleRunningJob
    \/ FinaliseJob

NextPool == PoolSyncNext \/ PoolRunNext \/ EnvNext

SpecPool == InitPool /\ [][NextPool]_vars

----------------------------------------------------------------------------
(* finalise_job statement by statement: every write to the disk is a step, *)
(* so that the process can be killed between any two of them               *)

\* Lines 192-217: inspect the container, match the outputs, build the
\* metadata and write logs.txt and metadata.json to the log directory
FinaliseInspect ==
    /\ loop.pc = "finalise"
    /\ LET job == store.jobs[loop.job]
           c == docker[loop.job]
           m == find_matching_outputs(job.output_spec, c.files)
           error == finalise_error(c.exit_code, m.unmatched_patterns)
           job_metadata == get_job_metadata(job, get_container_metadata(c), m.outputs, error, now)
       IN IF ~container_exists(c)
          THEN /\ loop' = [loop EXCEPT !.pc = "mark_failed",
                              !.err = Err("JobError", "Job container has vanished")]
               /\ UNCHANGED <<disk, hist>>
          ELSE /\ disk' = [disk EXCEPT ![job.workspace].logdir = SetMetadata(@, job_metadata)]
               /\ loop' = [loop EXCEPT !.pc = "fin_log",
                              !.fin = [NoFin EXCEPT !.job_metadata = job_metadata,
                                                    !.error = error]]
               /\ hist' = [hist EXCEPT
                             !.first = IF @ = NoStamp THEN now ELSE @,
                             !.written = IF @ = "no" THEN "no" ELSE "again"]
    /\ UNCHANGED <<store, tx, docker, kills, config, now>>

\* Lines 220-223: copy the log to metadata/<action>.log of the workspace
FinaliseCopyLog ==
    /\ loop.pc = "fin_log"
    /\ LET job == store.jobs[loop.job]
       IN disk' = [disk EXCEPT ![job.workspace].logs = SetLog(@, job.action, job.id)]
    /\ loop' = [loop EXCEPT !.pc = "fin_copy",
                            !.fin.to_copy = DOMAIN loop.fin.job_metadata.outputs]
    /\ UNCHANGED <<store, tx, docker, kills, config, now, hist>>

\* Lines 226-229: one docker.copy_from_volume
FinaliseCopyOutput ==
    /\ loop.pc = "fin_copy"
    /\ loop.fin.to_copy # {}
    /\ LET job == store.jobs[loop.job]
           filename == FirstOf(loop.fin.to_copy)
       IN /\ disk' = [disk EXCEPT ![job.workspace].files = @ \cup {filename}]
          /\ loop' = [loop EXCEPT !.fin.to_copy = @ \ {filename}]
    /\ UNCHANGED <<store, tx, docker, kills, config, now, hist>>

\* Variant: the primary manifest is written before the old files are deleted
FinaliseListExistingManifestFirst ==
    /\ loop.pc = "fin_copy"
    /\ loop.fin.to_copy = {}
    /\ LET job == store.jobs[loop.job]
           ws == disk[job.workspace]
           existing_files == list_outputs_from_action(ws.manifest, job.action)
           files_to_remove == existing_files \ DOMAIN loop.fin.job_metadata.outputs
       IN /\ loop' = [loop EXCEPT !.pc = "fin_delete",
                                  !.fin.files_to_remove = files_to_remove,
                                  !.fin.to_delete = files_to_remove]
          /\ disk' = [disk EXCEPT ![job.workspace].manifest =
                                     update_manifest(@, loop.fin.job_metadata)]
    /\ UNCHANGED <<store, tx, docker, kills, config, now, hist>>

\* Lines 232-235: the outputs of the previous run of the action, read from
\* the manifest on disk
FinaliseListExisting ==
    /\ loop.pc = "fin_copy"
    /\ loop.fin.to_copy = {}
    /\ LET job == store.jobs[loop.job]
           ws == disk[job.workspace]
           existing_files == list_outputs_from_action(ws.manifest, job.action)
           files_to_remove == existing_files \ DOMAIN loop.fin.job_metadata.outputs
       IN loop' = [loop EXCEPT !.pc = "fin_delete",
                               !.fin.files_to_remove = files_to_remove,
                               !.fin.to_delete = files_to_remove]
    /\ UNCHANGED <<store, tx, docker, disk, kills, config, now, hist>>

\* Line 236, delete_files: one unlink (a set is iterated in any order)
FinaliseDelete(filename) ==
    /\ loop.pc = "fin_delete"
    /\ filename \in loop.fin.to_delete
    /\ LET job == store.jobs[loop.job]
       IN disk' = [disk EXCEPT ![job.workspace].files = @ \ {filename}]
    /\ loop' = [loop EXCEPT !.fin.to_delete = @ \ {filename}]
    /\ UNCHANGED <<store, tx, docker, kills, config, now, hist>>

\* Lines 239-248: update the manifest in memory and copy the log to the
\* medium privacy workspace
FinaliseMediumLog ==
    /\ loop.pc = "fin_delete"
    /\ loop.fin.to_delete = {}
    /\ LET job == store.jobs[loop.job]
           ws == disk[job.workspace]
           outputs == loop.fin.job_metadata.outputs
       IN /\ disk' = [disk EXCEPT ![job.workspace].mlogs = SetLog(@, job.action, job.id)]
          /\ loop' = [loop EXCEPT
                        !.pc = "fin_medium",
                        !.fin.manifest = update_manifest(ws.manifest, loop.fin.job_metadata),
                        !.fin.to_copy = {f \in DOMAIN outputs :
                                            outputs[f] = "moderately_sensitive"},
                        !.fin.to_delete = loop.fin.files_to_remove]
    /\ UNCHANGED <<store, tx, docker, kills, config, now, hist>>

\* Lines 249-251: one copy_file from the high to the medium privacy workspace
FinaliseMediumCopy ==
    /\ loop.pc = "fin_medium"
    /\ loop.fin.to_copy # {}
    /\ LET job == store.jobs[loop.job]
           filename == FirstOf(loop.fin.to_copy)
       IN /\ filename \in disk[job.workspace].files
          /\ disk' = [disk EXCEPT ![job.workspace].mfiles = @ \cup {filename}]
          /\ loop' = [loop EXCEPT !.fin.to_copy = @ \ {filename}]
    /\ UNCHANGED <<store, tx, docker, kills, config, now, hist>>

\* Line 252, delete_files in the medium privacy workspace: one unlink
FinaliseMediumDelete(filename) ==
    /\ loop.pc = "fin_medium"
    /\ loop.fin.to_copy = {}
    /\ filename \in loop.fin.to_delete
    /\ LET job == store.jobs[loop.job]
       IN disk' = [disk EXCEPT ![job.workspace].mfiles = @ \ {filename}]
    /\ loop' = [loop EXCEPT !.fin.to_delete = @ \ {filename}]
    /\ UNCHANGED <<store, tx, docker, kills, config, now, hist>>

\* Line 253, write_manifest_file(medium_privacy_dir, manifest), line 507:
\* write_text opens manifest.tmp, which truncates it
FinaliseMediumManifestOpen ==
    /\ loop.pc = "fin_medium"
    /\ loop.fin.to_copy = {}
    /\ loop.fin.to_delete = {}
    /\ LET job == store.jobs[loop.job]
       IN disk' = [disk EXCEPT ![job.workspace].mtmp = [exists |-> TRUE, content |-> Torn]]
    /\ loop' = Goto("fin_mopen")
    /\ UNCHANGED <<store, tx, docker, kills, config, now, hist>>

\* Line 507: write_text has written the whole document to manifest.tmp
FinaliseMediumManifestWrite ==
    /\ loop.pc = "fin_mopen"
    /\ LET job == store.jobs[loop.job]
       IN disk' = [disk EXCEPT ![job.workspace].mtmp =
                                  [exists |-> TRUE, content |-> loop.fin.manifest]]
    /\ loop' = Goto("fin_mwrite")
    /\ UNCHANGED <<store, tx, docker, kills, config, now, hist>>

\* Line 508: manifest.tmp replaces manifest.json of the medium privacy workspace
FinaliseMediumManifest ==
    /\ loop.pc = "fin_mwrite"
    /\ LET job == store.jobs[loop.job]
       IN disk' = [disk EXCEPT ![job.workspace].mmanifest = disk[job.workspace].mtmp.content,
                               ![job.workspace].mtmp = NoTmp]
    /\ loop' = Goto("fin_manifest")
    /\ UNCHANGED <<store, tx, docker, kills, config, now, hist>>

\* Variant: the document is written to manifest.json itself
FinaliseManifestOpenInPlace ==
    /\ loop.pc = "fin_manifest"
    /\ LET job == store.jobs[loop.job]
       IN disk' = [disk EXCEPT ![job.workspace].manifest = Torn,
                               ![job.workspace].tmp = [exists |-> TRUE, content |-> Torn]]
    /\ loop' = Goto("fin_open")
    /\ UNCHANGED <<store, tx, docker, kills, config, now, hist>>

\* Line 258, write_manifest_file(workspace_dir, manifest), line 507: write_text
\* opens manifest.tmp, which truncates it
FinaliseManifestOpen ==
    /\ loop.pc = "fin_manifest"
    /\ LET job == store.jobs[loop.job]
       IN disk' = [disk EXCEPT ![job.workspace].tmp = [exists |-> TRUE, content |-> Torn]]
    /\ loop' = Goto("fin_open")
    /\ UNCHANGED <<store, tx, docker, kills, config, now, hist>>

\* Line 507: write_text has written the whole document to manifest.tmp
FinaliseManifestWrite ==
    /\ loop.pc = "fin_open"
    /\ LET job == store.jobs[loop.job]
       IN disk' = [disk EXCEPT ![job.workspace].tmp =
                                  [exists |-> TRUE, content |-> loop.fin.manifest]]
    /\ loop' = Goto("fin_write")
    /\ UNCHANGED <<store, tx, docker, kills, config, now, hist>>

\* Line 508: manifest.tmp replaces manifest.json, the last write, and lines
\* 260-261: `if error: raise error`
FinaliseManifest ==
    /\ loop.pc = "fin_write"
    /\ LET job == store.jobs[loop.job]
       IN disk' = [disk EXCEPT ![job.workspace].manifest = disk[job.workspace].tmp.content,
                               ![job.workspace].tmp = NoTmp]
    /\ loop' = IF loop.fin.error # NoErr
               THEN [loop EXCEPT !.pc = "mark_failed", !.err = loop.fin.error]
               ELSE Goto("mark_completed")
    /\ hist' = [hist EXCEPT !.written = IF @ = "no" THEN "yes" ELSE @]
    /\ UNCHANGED <<store, tx, docker, kills, config, now>>

\* A second of the wall clock passes
Tick ==
    /\ now < MaxNow
    /\ now' = now + 1
    /\ UNCHANGED <<store, tx, loop, docker, disk, kills, config, hist>>

----------------------------------------------------------------------------
(* The run process finalising one job in a workspace that holds the result *)
(* of an earlier job, with the clock running                               *)

FinaliseActions == {"a", "c"}

\* What a container of the action has left behind when it exited
ContainerResults(output_spec) ==
    [exit_code : {0, 1},
     files : SUBSET UNION {glob_volume_files(Files, output_spec[i][3]) :
                              i \in 1..Len(output_spec)}]

ExitedContainer(r) == [container |-> "exited", exit_code |-> r.exit_code, volume |-> TRUE,
                       env |-> <<>>,
                       files |-> r.files, runs |-> 1, populated |-> 1]

CleanedContainer == [NoContainer EXCEPT !.runs = 1, !.populated = 1]

RequestFor(id, action) ==
    [id |-> id, workspace |-> W1, requested_actions |-> <<action>>,
     force_run_dependencies |-> FALSE, database_name |-> "full"]

\* The row of a job the run loop has started
RunningJob(id, action, output_spec) ==
    [new_job(RequestFor(id, action), action, <<>>) EXCEPT
        !.id = id, !.output_spec = output_spec, !.status = RUNNING, !.status_message = Message("Started")]

\* The row of a job the run loop has finalised
FinishedJob(id, action, output_spec, r) ==
    LET error == finalise_error(r.exit_code,
                     find_matching_outputs(output_spec, r.files).unmatched_patterns)
    IN [RunningJob(id, action, output_spec) EXCEPT
           !.status = IF error = NoErr THEN COMPLETED ELSE FAILED,
           !.status_message = IF error = NoErr THEN Message("Completed successfully")
                              ELSE Message(error.kind \o ": " \o error.text)]

\* The output_spec a job of the action can carry: that of the project file
\* at the commit of its job request
Revisions(action) == {OutputSpec[action], RevisedOutputSpec[action]}

InitFinalise ==
    \E prior_action \in FinaliseActions, action \in FinaliseActions :
        \E prior_spec \in Revisions(prior_action), spec \in Revisions(action) :
        \E prior \in ContainerResults(prior_spec), current \in ContainerResults(spec) :
            LET job1 == FinishedJob(1, prior_action, prior_spec, prior)
                job2 == RunningJob(2, action, spec)
                ws == finalise_job(EmptyWorkspace, job1, ExitedContainer(prior), MinNow)
            IN /\ store = [jobs |-> <<job1, job2>>,
                           reqs |-> <<[id |-> 1, original |-> RequestFor(1, prior_action)],
                                      [id |-> 2, original |-> RequestFor(2, action)]>>]
               /\ tx = NoTx
               /\ loop = IdleLoop
               /\ docker = [j \in JobIds |->
                              IF j = 1 THEN CleanedContainer
                              ELSE IF j = 2 THEN ExitedContainer(current)
                              ELSE NoContainer]
               /\ disk = [w \in Workspaces |-> IF w = W1 THEN ws ELSE EmptyWorkspace]
               /\ kills = 0
               /\ config = DefaultConfig
               /\ now = MinNow
               /\ hist = [NoHist EXCEPT !.returned = {1, 2}, !.before = ws,
                                        !.container = ExitedContainer(current)]

NextFinalise ==
    \/ HandleJobs
    \/ HandleRunningJob
    \/ FinaliseInspect
    \/ FinaliseCopyLog
    \/ FinaliseCopyOutput
    \/ FinaliseListExisting
    \/ \E filename \in Files : FinaliseDelete(filename)
    \/ FinaliseMediumLog
    \/ FinaliseMediumCopy
    \/ \E filename \in Files : FinaliseMediumDelete(filename)
    \/ FinaliseMediumManifestOpen
    \/ FinaliseMediumManifestWrite
    \/ FinaliseMediumManifest
    \/ FinaliseManifestOpen
    \/ FinaliseManifestWrite
    \/ FinaliseManifest
    \/ MarkJobAsFailed
    \/ MarkJobAsCompleted
    \/ CleanupJob
    \/ KillRun
    \/ Tick

SpecFinalise == InitFinalise /\ [][NextFinalise]_vars

----------------------------------------------------------------------------
(* The run process finalising a job whose container has an environment *)

\* Names and values of the variables a container can have: from the image
\* (PATH) and from the env of docker.run
EnvNames == {<<"P", "A", "T", "H">>,
             <<"D", "A", "T", "A", "B", "A", "S", "E", "_", "U", "R", "L">>,
             <<"T", "E", "M", "P", "_", "D", "A", "T", "A", "B", "A", "S", "E", "_", "N", "A", "M", "E">>}
EnvValues == {<<"1">>, <<"2">>, <<"a", "=", "b">>}
MaxEnv == 2

\* The environments: lists of up to MaxEnv variables
Environments ==
    UNION {[1..n -> [name : EnvNames, value : EnvValues]] : n \in 0..MaxEnv}

\* An entry of Config.Env
EnvLine(variable) == variable.name \o <<"=">> \o variable.value

InitRedact ==
    \E environment \in Environments, exit_code \in {0, 1} :
        LET c == [ExitedContainer([exit_code |-> exit_code, files |-> Producible("a")])
                     EXCEPT !.env = [n \in 1..Len(environment) |-> EnvLine(environment[n])]]
        IN /\ store = [jobs |-> <<RunningJob(1, "a", OutputSpec["a"])>>,
                       reqs |-> <<[id |-> 1, original |-> RequestFor(1, "a")]>>]
           /\ tx = NoTx
           /\ loop = IdleLoop
           /\ docker = [j \in JobIds |-> IF j = 1 THEN c ELSE NoContainer]
           /\ disk = [w \in Workspaces |-> EmptyWorkspace]
           /\ kills = 0
           /\ config = DefaultConfig
           /\ now = MinNow
           /\ hist = [NoHist EXCEPT !.returned = {1}, !.container = c, !.env = environment]

NextRedact ==
    \/ HandleJobs
    \/ HandleRunningJob
    \/ FinaliseJob
    \/ MarkJobAsFailed
    \/ MarkJobAsCompleted
    \/ CleanupJob
    \/ KillRun

SpecRedact == InitRedact /\ [][NextRedact]_vars

----------------------------------------------------------------------------
(* The run process with failures of the container runtime: a docker       *)
(* command of start_job, finalise_job or cleanup_job ends with              *)
(* CalledProcessError, which is no JobError. Nothing in run.py catches it:  *)
(* it leaves handle_jobs and main, and the process is started again         *)

\* In start_job: handle_pending_job has no handler for it
StartJobFails ==
    /\ loop.pc \in {"start_job", "start_run"}
    /\ hist.failures < MaxFailures
    /\ hist' = [hist EXCEPT !.failures = @ + 1]
    /\ loop' = IdleLoop
    /\ UNCHANGED <<store, tx, docker, disk, kills, config, now>>

\* In finalise_job, before its first write: handle_running_job has no
\* handler for it, but its `finally` runs cleanup_job on the way out
FinaliseJobFails ==
    /\ loop.pc = "finalise"
    /\ hist.failures < MaxFailures
    /\ hist' = [hist EXCEPT !.failures = @ + 1]
    /\ docker' = [docker EXCEPT ![loop.job] = cleanup_job(@)]
    /\ loop' = IdleLoop
    /\ UNCHANGED <<store, tx, disk, kills, config, now>>

\* In cleanup_job, before anything is deleted
CleanupJobFails ==
    /\ loop.pc = "cleanup"
    /\ hist.failures < MaxFailures
    /\ hist' = [hist EXCEPT !.failures = @ + 1]
    /\ loop' = IdleLoop
    /\ UNCHANGED <<store, tx, docker, disk, kills, config, now>>

FaultyRunNext ==
    \/ HandleJobs
    \/ HandlePendingJob
    \/ StartJobExists
    \/ StartJobVolume
    \/ \E image_exists_locally \in BOOLEAN : StartJobRun(image_exists_locally)
    \/ MarkJobAsRunning
    \/ MarkJobAsFailed
    \/ MarkJobAsCompleted
    \/ CleanupJob
    \/ HandleRunningJob
    \/ FinaliseJob
    \/ KillRun
    \/ StartJobFails
    \/ FinaliseJobFails
    \/ CleanupJobFails

NextFaulty == V2SyncNext \/ FaultyRunNext \/ EnvNext

SpecFaulty == Init /\ [][NextFaulty]_vars

----------------------------------------------------------------------------
(* The program under its scheduling: main() loops for ever, a transaction *)
(* that has begun ends, and every container that was started stops          *)

\* A step of the run loop
LoopStep ==
    \/ HandleJobs
    \/ HandlePendingJob
    \/ StartJobExists
    \/ StartJobVolume
    \/ \E image_exists_locally \in BOOLEAN : StartJobRun(image_exists_locally)
    \/ MarkJobAsRunning
    \/ MarkJobAsFailed
    \/ MarkJobAsCompleted
    \/ CleanupJob
    \/ HandleRunningJob
    \/ FinaliseJob

\* A step of an open transaction of the sync process
TxStep == TxInsert \/ TxCommit \/ TxRaise

\* The container of a job stops
ContainerStops(id) ==
    /\ id \in 1..Len(store.jobs)
    /\ store.jobs[id].action \in Actions
    /\ \E exit_code \in {0, 1}, produced \in Outcomes(store.jobs[id].action) :
          ContainerExits(id, exit_code, produced)

NextLive ==
    \/ \E job_request \in V2Requests : CreateOrUpdateJobs(job_request, "none")
    \/ TxStep
    \/ LoopStep
    \/ KillRun
    \/ \E id \in JobIds : ContainerStops(id)

SpecLive ==
    /\ Init
    /\ [][NextLive]_vars
    /\ WF_vars(LoopStep)
    /\ WF_vars(TxStep)
    /\ \A id \in JobIds : WF_vars(ContainerStops(id))

----------------------------------------------------------------------------
(* The expander on a workspace with a history: earlier jobs have left      *)
(* manifest entries and files behind, some files have been deleted by      *)
(* hand, and jobs of an earlier request may still be Pending or Running.   *)
(* Only the sync process runs; the containers of the earlier jobs are not  *)
(* followed, the expander never looks at docker.                           *)

\* What the manifest and the disk say about one action
Histories == {"none", "succeeded", "missing", "failed"}

\* What the container of the earlier job of an action left behind
PriorResult(action, history) ==
    IF history = "failed" THEN [exit_code |-> 1, files |-> {}]
    ELSE [exit_code |-> 0, files |-> Producible(action)]

\* Row of an earlier job of the action that the run loop has finalised
PriorJob(id, action, history) ==
    [FinishedJob(id, action, OutputSpec[action], PriorResult(action, history))
        EXCEPT !.job_request_id = EarlierRequest,
               !.wait_for_job_ids = <<>>]

\* Row of a job of the earlier request that is still Pending or Running
ActiveJob(id, action, status, wait_for_job_ids) ==
    [new_job(RequestFor(EarlierRequest, action), action, wait_for_job_ids)
        EXCEPT !.id = id,
               !.status = status,
               !.status_message = IF status = RUNNING THEN Message("Started")
                                  ELSE NoMessage]

RECURSIVE PriorRows(_, _)
\* The finalised jobs, in the order a, b, c: history is a sequence of
\* <<action, history>> pairs
PriorRows(history, rows) ==
    IF history = <<>> THEN rows
    ELSE IF Head(history)[2] = "none" THEN PriorRows(Tail(history), rows)
    ELSE PriorRows(Tail(history),
                   Append(rows, PriorJob(Len(rows) + 1, Head(history)[1], Head(history)[2])))

RECURSIVE PriorWorkspace(_, _, _)
\* The workspace after finalise_job of each of the rows; files of an action
\* whose history is "missing" were deleted from the disk afterwards
PriorWorkspace(history, rows, ws) ==
    IF rows = <<>>
    THEN [ws EXCEPT !.files = @ \ UNION {Producible(history[i][1]) :
                                    i \in {k \in 1..Len(history) : history[k][2] = "missing"}}]
    ELSE LET job == Head(rows)
             r == PriorResult(job.action,
                      (CHOOSE h \in Range(history) : h[1] = job.action)[2])
         IN PriorWorkspace(history, Tail(rows),
                           finalise_job(ws, job, ExitedContainer(r), MinNow))

\* The earlier request, kept in the job_request table
EarlierJobRequest ==
    [id |-> EarlierRequest, workspace |-> W1, requested_actions |-> <<"c", "b">>,
     force_run_dependencies |-> TRUE, database_name |-> "full"]

InitExpand ==
    \E a \in Histories, b \in Histories, c \in Histories \ {"missing"} :
    \E active_a \in {"", PENDING, RUNNING}, active_b \in {"", PENDING, RUNNING} :
        LET history == << <<"a", a>>, <<"b", b>>, <<"c", c>> >>
            rows == PriorRows(history, <<>>)
            done_a == {i \in 1..Len(rows) : rows[i].action = "a"}
            with_a == IF active_a = "" THEN rows
                      ELSE Append(rows, ActiveJob(Len(rows) + 1, "a", active_a, <<>>))
            waits == IF active_a # "" THEN <<Len(with_a)>> ELSE <<Min(done_a)>>
            with_b == IF active_b = "" THEN with_a
                      ELSE Append(with_a, ActiveJob(Len(with_a) + 1, "b", active_b, waits))
        IN \* b has run only after a has, it is Running only on outputs of a,
           \* and it waits only for a job of a
           /\ b # "none" => a # "none"
           /\ active_b # "" => a # "none" \/ active_a # ""
           /\ active_b = RUNNING => a \in {"succeeded", "missing"} /\ active_a = ""
           /\ store = [jobs |-> with_b,
                        reqs |-> IF with_b = <<>> THEN <<>>
                                 ELSE <<[id |-> EarlierRequest, original |-> EarlierJobRequest]>>]
           /\ tx = NoTx
           /\ loop = IdleLoop
           /\ docker = [j \in JobIds |-> NoContainer]
           /\ disk = [w \in Workspaces |->
                         IF w = W1 THEN PriorWorkspace(history, rows, EmptyWorkspace)
                         ELSE EmptyWorkspace]
           /\ kills = 0
           /\ config = DefaultConfig
           /\ now = MinNow
           /\ hist = NoHist

\* Job requests for the workspace with the history, among them those that
\* force the dependencies of two requested actions and those for d, whose
\* needs have needs
ExpandRequests ==
    ValidRequests
    \cup
    [id : 1..MaxRequests,
     workspace : {W1},
     requested_actions : {<<"c", "b">>},
     force_run_dependencies : {TRUE},
     database_name : {"full"}]
    \cup
    [id : 1..MaxRequests,
     workspace : {W1},
     requested_actions : {<<"d">>},
     force_run_dependencies : BOOLEAN,
     database_name : {"full"}]
    \cup
    [id : 1..MaxRequests,
     workspace : {W2},
     requested_actions : {<<"b">>},
     force_run_dependencies : {FALSE},
     database_name : {"full"}]

\* The sync process with git and the project file in order
NextExpand ==
    \/ \E job_request \in ExpandRequests : CreateOrUpdateJobs(job_request, "none")
    \/ TxInsert
    \/ TxCommit
    \/ TxRaise
    \/ KillSync

SpecExpand == InitExpand /\ [][NextExpand]_vars

----------------------------------------------------------------------------
(* The expansion of a request against the project file of its commit, which *)
(* may be another than the project the earlier jobs were created from: one  *)
(* whose `needs` run in a circle.  hist.cyclic holds the ids of the         *)
(* requests expanded against a project with a circle that a requested       *)
(* action reaches, in a workspace where nothing ends the recursion early    *)

\* b needs d and d needs b
CyclicNeeds == [a |-> <<>>, b |-> <<"a", "d">>, c |-> <<>>, d |-> <<"c", "b">>, e |-> <<"a">>]

Projects == {Needs, CyclicNeeds}

\* Frames of recursively_add_jobs the interpreter allows on the stack before
\* it raises RecursionError (sys.getrecursionlimit())
RecursionLimit == 4

RECURSIVE recursively_add_jobs_in(_, _, _, _, _, _, _)
RECURSIVE add_required_jobs_in(_, _, _, _, _, _, _, _)

\* recursively_add_jobs against the project given, called at the depth given
recursively_add_jobs_in(project, depth, db, ws, job_request, action, force_run_actions) ==
    LET already_active_jobs == find_active(db, job_request.workspace, action)
        forced == force_run_actions.wildcard \/ action \in force_run_actions.actions
        action_status == IF forced THEN "forced"
                         ELSE action_has_successful_outputs(ws, action)
    IN IF depth > RecursionLimit
       THEN [db |-> db, job |-> NoJob,
             err |-> Err("RecursionError", "maximum recursion depth exceeded")]
       ELSE IF already_active_jobs # {}
       THEN [db |-> db, job |-> Min(already_active_jobs), err |-> NoErr]
       ELSE IF action_status = "True"
       THEN [db |-> db, job |-> NoJob, err |-> NoErr]
       ELSE IF action_status = "False"
       THEN [db |-> db, job |-> NoJob,
             err |-> Err("JobRequestError",
                         action \o " failed on a previous run and must be re-run")]
       ELSE LET req == add_required_jobs_in(project, depth + 1, db, ws, job_request,
                                            project[action], force_run_actions, <<>>)
            IN IF req.err # NoErr
               THEN [db |-> req.db, job |-> NoJob, err |-> req.err]
               ELSE [db |-> insert_job(req.db,
                                [new_job(job_request, action, req.wait_for_job_ids)
                                    EXCEPT !.requires_outputs_from = project[action]]),
                     job |-> Len(req.db.jobs) + 1,
                     err |-> NoErr]

\* The loop over action_spec.needs, its calls at the depth given
add_required_jobs_in(project, depth, db, ws, job_request, needs, force_run_actions, wait_for_job_ids) ==
    IF needs = <<>>
    THEN [db |-> db, wait_for_job_ids |-> wait_for_job_ids, err |-> NoErr]
    ELSE LET r == recursively_add_jobs_in(project, depth, db, ws, job_request,
                                          Head(needs), force_run_actions)
         IN IF r.err # NoErr
            THEN [db |-> r.db, wait_for_job_ids |-> wait_for_job_ids, err |-> r.err]
            ELSE add_required_jobs_in(project, depth, r.db, ws, job_request, Tail(needs),
                    force_run_actions,
                    IF r.job # NoJob THEN Append(wait_for_job_ids, r.job)
                    ELSE wait_for_job_ids)

RECURSIVE add_requested_jobs_in(_, _, _, _, _, _)
\* The loop over job_request.requested_actions
add_requested_jobs_in(project, db, ws, job_request, actions, new_job_scheduled) ==
    IF actions = <<>>
    THEN [db |-> db, new_job_scheduled |-> new_job_scheduled, err |-> NoErr]
    ELSE LET r == recursively_add_jobs_in(project, 1, db, ws, job_request, Head(actions),
                                          force_run_actions_of(job_request))
         IN IF r.err # NoErr
            THEN [db |-> r.db, new_job_scheduled |-> new_job_scheduled, err |-> r.err]
            ELSE IF r.job = NoJob
            THEN [db |-> r.db, new_job_scheduled |-> new_job_scheduled,
                  err |-> Err("AttributeError", "'NoneType' object has no attribute")]
            ELSE add_requested_jobs_in(project, r.db, ws, job_request, Tail(actions),
                    new_job_scheduled \/ r.db.jobs[r.job].job_request_id = job_request.id)

\* The `with transaction()` block of create_jobs_with_project_file
create_jobs_with_project_file_in(project, db, ws, job_request) ==
    LET db1 == insert_request(db, job_request)
        r == add_requested_jobs_in(project, db1, ws, job_request,
                                   job_request.requested_actions, FALSE)
    IN IF r.err # NoErr THEN [db |-> r.db, err |-> r.err]
       ELSE IF ~r.new_job_scheduled
       THEN [db |-> r.db,
             err |-> Err("JobRequestError",
                         "All requested actions were already scheduled to run")]
       ELSE [db |-> r.db, err |-> NoErr]

\* The actions that some chain of needs leads to from the actions given
RECURSIVE NeededFrom(_, _)
NeededFrom(project, actions) ==
    LET more == actions \cup UNION {Range(project[action]) : action \in actions}
    IN IF more = actions THEN actions ELSE NeededFrom(project, more)

\* A requested action is on a circle of needs, or needs an action that is
CycleReached(project, job_request) ==
    \E action \in NeededFrom(project, Range(job_request.requested_actions)) :
        action \in NeededFrom(project, Range(project[action]))

\* No action the request needs has a job that is active or an outcome in the
\* manifest that recursively_add_jobs returns or raises on
NothingEndsRecursion(project, db, ws, job_request) ==
    \A action \in NeededFrom(project, Range(job_request.requested_actions)) :
        /\ find_active(db, job_request.workspace, action) = {}
        /\ \/ force_run_actions_of(job_request).wildcard
           \/ action \in force_run_actions_of(job_request).actions
           \/ action_has_successful_outputs(ws, action) = "None"

\* Requests for d and for e, of which d is on the circle of CyclicNeeds
CycleRequests ==
    [id : 1..MaxRequests,
     workspace : {W1},
     requested_actions : {<<"d">>, <<"e">>},
     force_run_dependencies : BOOLEAN,
     database_name : {"full"}]

\* parse_and_validate_project_file returns the project: the shape of the file
\* and of each action is validated, the graph of needs is not walked
parse_and_validate_project_file(project) == NoErr

\* create_or_update_jobs against the project file of the request's commit
CycleCreateOrUpdateJobs(job_request, project) ==
    /\ tx.phase = "none"
    /\ KnownRequest(job_request)
    /\ UNCHANGED <<loop, docker, disk, kills, config, now>>
    /\ IF related_jobs_exist(store, job_request)
       THEN /\ hist' = [hist EXCEPT !.noop = TRUE]
            /\ UNCHANGED <<store, tx>>
       ELSE /\ Cardinality(Issued(store)) < MaxJobs
            /\ LET verr == validate_job_request(job_request)
                   perr == IF verr # NoErr THEN verr
                           ELSE parse_and_validate_project_file(project)
                   r == create_jobs_with_project_file_in(project, store,
                            disk[job_request.workspace], job_request)
                   work == insert_request(store, job_request)
               IN IF perr # NoErr
                  THEN /\ store' = create_failed_job(store, job_request, perr)
                       /\ hist' = Returned(job_request, perr)
                       /\ UNCHANGED tx
                  ELSE /\ Cardinality(Issued(r.db)) <= MaxJobs
                       /\ tx' = [phase |-> "open", req |-> job_request, work |-> work,
                                 plan |-> SubSeq(r.db.jobs, Len(store.jobs) + 1,
                                                 Len(r.db.jobs)),
                                 err |-> r.err]
                       /\ store' = transaction(store, work)
                       /\ hist' = [hist EXCEPT !.cyclic =
                                     IF /\ CycleReached(project, job_request)
                                        /\ NothingEndsRecursion(project, store,
                                               disk[job_request.workspace], job_request)
                                     THEN @ \cup {job_request.id} ELSE @]

\* Leaving the `with` block by an exception: ROLLBACK; create_or_update_jobs
\* catches GitError, ProjectValidationError and JobRequestError and runs
\* create_failed_job, any other exception leaves it and sync()
CycleTxRaise ==
    /\ tx.phase = "open"
    /\ tx.plan = <<>>
    /\ tx.err # NoErr
    /\ IF tx.err.kind \in {"GitError", "ProjectValidationError", "JobRequestError"}
       THEN /\ store' = create_failed_job(store, tx.req, tx.err)
            /\ hist' = Returned(tx.req, tx.err)
       ELSE /\ store' = store
            /\ hist' = [hist EXCEPT !.raised = @ \cup {<<tx.req.id, tx.err>>}]
    /\ tx' = NoTx
    /\ UNCHANGED <<loop, docker, disk, kills, config, now>>

NextCycle ==
    \/ \E job_request \in CycleRequests, project \in Projects :
           CycleCreateOrUpdateJobs(job_request, project)
    \/ TxInsert
    \/ TxCommit
    \/ CycleTxRaise
    \/ KillSync

SpecCycle == InitExpand /\ [][NextCycle]_vars

----------------------------------------------------------------------------
(* The run loop with a Pending job for b whose needed action a has any of  *)
(* the histories: outputs of a may have been deleted by hand, or a was run *)
(* again and failed, after the job for b was created                       *)

InitStart ==
    \E a \in Histories, waiting \in BOOLEAN :
        LET history == << <<"a", a>> >>
            rows == PriorRows(history, <<>>)
            waits == IF waiting THEN <<1>> ELSE <<>>
            job == [ActiveJob(Len(rows) + 1, "b", PENDING, waits)
                       EXCEPT !.job_request_id = 1]
        IN \* the job waits for the job of a only if that one is stored
           /\ waiting => a # "none"
           /\ store = [jobs |-> Append(rows, job),
                        reqs |-> (IF rows = <<>> THEN <<>>
                                  ELSE <<[id |-> EarlierRequest,
                                          original |-> RequestFor(EarlierRequest, "a")]>>)
                                 \o <<[id |-> 1, original |-> RequestFor(1, "b")]>>]
           /\ tx = NoTx
           /\ loop = IdleLoop
           /\ docker = [j \in JobIds |->
                          IF j <= Len(rows) THEN CleanedContainer ELSE NoContainer]
           /\ disk = [w \in Workspaces |->
                         IF w = W1 THEN PriorWorkspace(history, rows, EmptyWorkspace)
                         ELSE EmptyWorkspace]
           /\ kills = 0
           /\ config = DefaultConfig
           /\ now = MinNow
           /\ hist = NoHist

NextStart == RunNext \/ EnvNext

SpecStart == InitStart /\ [][NextStart]_vars

----------------------------------------------------------------------------
(* The run process with the jobs of three requests in the table: b and e    *)
(* wait for the job of a, c waits for nothing                               *)

\* The container of a job that start_job has started
StartedContainer == [NoContainer EXCEPT !.container = "running", !.volume = TRUE,
                                        !.runs = 1, !.populated = 1]

InitWorkers ==
    \E workers \in {DefaultConfig, PoolConfig}, started \in BOOLEAN :
        LET rows == <<ActiveJob(1, "a", IF started THEN RUNNING ELSE PENDING, <<>>),
                      ActiveJob(2, "b", PENDING, <<1>>),
                      [ActiveJob(3, "e", PENDING, <<1>>) EXCEPT !.job_request_id = 1],
                      [ActiveJob(4, "c", PENDING, <<>>) EXCEPT !.job_request_id = 2]>>
        IN /\ store = [jobs |-> rows,
                        reqs |-> <<[id |-> EarlierRequest,
                                    original |-> RequestFor(EarlierRequest, "b")],
                                   [id |-> 1, original |-> RequestFor(1, "e")],
                                   [id |-> 2, original |-> RequestFor(2, "c")]>>]
           /\ tx = NoTx
           /\ loop = IdleLoop
           /\ docker = [j \in 1..Len(rows) |->
                          IF j = 1 /\ started THEN StartedContainer ELSE NoContainer]
           /\ disk = [w \in Workspaces |-> EmptyWorkspace]
           /\ kills = 0
           /\ config = workers
           /\ now = MinNow
           /\ hist = NoHist

NextWorkers == RunNext \/ EnvNext

SpecWorkers == InitWorkers /\ [][NextWorkers]_vars

----------------------------------------------------------------------------
(* The run process with jobs that wait and run while the clock goes from    *)
(* one ten-minute window of the timestamp into the next: `now` is the      *)
(* minute that "%H:%M" shows                                                *)

InitLog ==
    \E started \in BOOLEAN :
        LET rows == <<ActiveJob(1, "a", IF started THEN RUNNING ELSE PENDING, <<>>),
                      ActiveJob(2, "b", PENDING, <<1>>),
                      [ActiveJob(3, "c", PENDING, <<>>) EXCEPT !.job_request_id = 1]>>
        IN /\ store = [jobs |-> rows,
                        reqs |-> <<[id |-> EarlierRequest,
                                    original |-> RequestFor(EarlierRequest, "b")],
                                   [id |-> 1, original |-> RequestFor(1, "c")]>>]
           /\ tx = NoTx
           /\ loop = IdleLoop
           /\ docker = [j \in JobIds |->
                          IF j = 1 /\ started THEN StartedContainer ELSE NoContainer]
           /\ disk = [w \in Workspaces |-> EmptyWorkspace]
           /\ kills = 0
           /\ config = DefaultConfig
           /\ now = MinNow - 1
           /\ hist = NoHist

NextLog == RunNext \/ EnvNext \/ Tick

SpecLog == InitLog /\ [][NextLog]_vars

----------------------------------------------------------------------------
(* The run process with a job of a to start and a job of c that runs, in a  *)
(* workspace that holds the result of an earlier job; at one commit of the  *)
(* project c declares the path that a declares                              *)

SharedOutputSpec == << <<"moderately_sensitive", "csv", "out/*.csv">> >>

\* The output_spec a job of the action can carry in this workspace
SharedRevisions(action) ==
    IF action = "c" THEN {OutputSpec[action], SharedOutputSpec} ELSE {OutputSpec[action]}

InitManifest ==
    \E prior_action \in FinaliseActions :
    \E prior_spec \in SharedRevisions(prior_action), spec \in SharedRevisions("c") :
    \E prior \in ContainerResults(prior_spec) :
        LET job1 == FinishedJob(1, prior_action, prior_spec, prior)
            job2 == [ActiveJob(2, "a", PENDING, <<>>) EXCEPT !.job_request_id = 2]
            job3 == RunningJob(3, "c", spec)
        IN /\ store = [jobs |-> <<job1, job2, job3>>,
                        reqs |-> <<[id |-> 1, original |-> RequestFor(1, prior_action)],
                                   [id |-> 2, original |-> RequestFor(2, "a")],
                                   [id |-> 3, original |-> RequestFor(3, "c")]>>]
           /\ tx = NoTx
           /\ loop = IdleLoop
           /\ docker = [j \in JobIds |->
                          IF j = 1 THEN CleanedContainer
                          ELSE IF j = 2 THEN NoContainer ELSE StartedContainer]
           /\ disk = [w \in Workspaces |->
                         IF w = W1
                         THEN finalise_job(EmptyWorkspace, job1, ExitedContainer(prior),
                                           MinNow)
                         ELSE EmptyWorkspace]
           /\ kills = 0
           /\ config = PoolConfig
           /\ now = MinNow
           /\ hist = NoHist

\* A container stops, having written some of the files its job declares
ContainerStopsWith ==
    \E id \in 1..Len(store.jobs) :
        \E r \in ContainerResults(store.jobs[id].output_spec) :
            ContainerExits(id, r.exit_code, r.files)

NextManifest == RunNext \/ ContainerStopsWith

SpecManifest == InitManifest /\ [][NextManifest]_vars

----------------------------------------------------------------------------
(* glob_volume_files on one volume. Paths, patterns and regular expressions *)
(* are sequences: of characters for paths and patterns, of the pieces       *)
(* re.escape and "[^/]*" for regular expressions                            *)

VOLUME_MOUNT_POINT == <<"/", "w">>

\* Code points, for the order sorted() puts strings in
Ord(char) ==
    CASE char = "*" -> 42 [] char = "." -> 46 [] char = "/" -> 47
      [] char = "a" -> 97 [] char = "b" -> 98 [] char = "w" -> 119

\* f < g as Python compares strings
RECURSIVE StrLess(_, _)
StrLess(f, g) ==
    IF g = <<>> THEN FALSE
    ELSE IF f = <<>> THEN TRUE
    ELSE IF Head(f) = Head(g) THEN StrLess(Tail(f), Tail(g))
    ELSE Ord(Head(f)) < Ord(Head(g))

RECURSIVE sorted(_)
sorted(files) ==
    IF files = {} THEN <<>>
    ELSE LET first == CHOOSE f \in files : \A g \in files \ {f} : StrLess(f, g)
         IN <<first>> \o sorted(files \ {first})

\* glob_pattern.split("*")
RECURSIVE split(_)
split(glob_pattern) ==
    LET stars == {i \in 1..Len(glob_pattern) : glob_pattern[i] = "*"}
    IN IF stars = {} THEN <<glob_pattern>>
       ELSE <<SubSeq(glob_pattern, 1, Min(stars) - 1)>>
                \o split(SubSeq(glob_pattern, Min(stars) + 1, Len(glob_pattern)))

\* re.escape, character by character
re_escape(literal) ==
    [i \in 1..Len(literal) |-> IF literal[i] = "." THEN "\\." ELSE literal[i]]

\* Variant: the literals are not escaped
re_verbatim(literal) == literal

\* "[^/]*".join(..)
RECURSIVE star_join(_)
star_join(literals) ==
    IF Len(literals) = 1 THEN Head(literals)
    ELSE Head(literals) \o <<"[^/]*">> \o star_join(Tail(literals))

\* Variant: the literals go into the regular expression as they are
glob_pattern_to_regex_verbatim(glob_pattern) ==
    LET literals == split(glob_pattern)
    IN star_join([i \in 1..Len(literals) |-> re_verbatim(literals[i])])

\* _glob_pattern_to_regex
glob_pattern_to_regex(glob_pattern) ==
    LET literals == split(glob_pattern)
    IN star_join([i \in 1..Len(literals) |-> re_escape(literals[i])])

\* One piece of a regular expression against one character
PieceMatches(piece, char) ==
    IF piece = "." THEN TRUE
    ELSE IF piece = "\\." THEN char = "."
    ELSE piece = char

\* The lengths of the prefixes of a string that a regular expression matches
RECURSIVE MatchEnds(_, _)
MatchEnds(regex, string) ==
    IF regex = <<>> THEN {0}
    ELSE IF Head(regex) = "[^/]*"
    THEN UNION {{n + m : m \in MatchEnds(Tail(regex), SubSeq(string, n + 1, Len(string)))} :
                   n \in {k \in 0..Len(string) : \A i \in 1..k : string[i] # "/"}}
    ELSE IF string # <<>> /\ PieceMatches(Head(regex), Head(string))
    THEN {1 + m : m \in MatchEnds(Tail(regex), Tail(string))}
    ELSE {}

\* re.compile(regex).match(string): a match at the start of the string
re_match(regex, string) == MatchEnds(regex, string) # {}

\* find -regex: "a match on the whole path, not a search"
find_regex(regex, path) == Len(path) \in MatchEnds(regex, path)

\* The lines of `find /workspace -type f ( -regex .. -o -regex .. )`
find(volume, glob_patterns) ==
    {path \in {VOLUME_MOUNT_POINT \o <<"/">> \o f : f \in volume} :
        \E i \in 1..Len(glob_patterns) :
            find_regex(glob_pattern_to_regex(
                           VOLUME_MOUNT_POINT \o <<"/">> \o glob_patterns[i]), path)}

\* glob_volume_files after the find: the values of `matches`
glob_volume_files_matches(stdout, glob_patterns) ==
    LET chars_to_strip == Len(VOLUME_MOUNT_POINT) + 1
        files == sorted({SubSeq(f, chars_to_strip + 1, Len(f)) : f \in stdout})
    IN [i \in 1..Len(glob_patterns) |->
           SelectSeq(files, LAMBDA f :
               re_match(glob_pattern_to_regex(glob_patterns[i]), f))]

\* Files of a volume and patterns of an output_spec
VolumeFiles ==
    {<<"a">>, <<"a", "b">>, <<"a", ".", "b">>, <<"a", "/", "b">>,
     <<"b", "/", "a", ".", "b">>, <<"b", "a", "b">>}

GlobPatterns ==
    {<<"a">>, <<"*">>, <<"a", "*">>, <<"*", ".", "b">>, <<"*", "/", "*">>,
     <<"b", "/", "*", ".", "b">>, <<"*", "b">>}

MaxPatterns == 2

InitGlob ==
    \E volume \in SUBSET VolumeFiles, n \in 1..MaxPatterns :
      \E glob_patterns \in [1..n -> GlobPatterns] :
        /\ store = EmptyDb
        /\ tx = NoTx
        /\ loop = IdleLoop
        /\ docker = [j \in JobIds |-> NoContainer]
        /\ disk = [w \in Workspaces |-> EmptyWorkspace]
        /\ kills = 0
        /\ config = DefaultConfig
        /\ now = MinNow
        /\ hist = [NoHist EXCEPT !.glob =
                     [NoGlob EXCEPT !.pc = "find", !.volume = volume,
                                    !.glob_patterns = glob_patterns]]

\* The manager container runs find
GlobFind ==
    /\ hist.glob.pc = "find"
    /\ hist' = [hist EXCEPT !.glob =
                  [@ EXCEPT !.pc = "match",
                            !.stdout = find(hist.glob.volume, hist.glob.glob_patterns)]]
    /\ UNCHANGED <<store, tx, loop, docker, disk, kills, config, now>>

\* The lines are stripped, sorted and matched against each pattern
GlobMatch ==
    /\ hist.glob.pc = "match"
    /\ hist' = [hist EXCEPT !.glob =
                  [@ EXCEPT !.pc = "returned",
                            !.matches = glob_volume_files_matches(
                                            hist.glob.stdout, hist.glob.glob_patterns)]]
    /\ UNCHANGED <<store, tx, loop, docker, disk, kills, config, now>>

NextGlob == GlobFind \/ GlobMatch

SpecGlob == InitGlob /\ [][NextGlob]_vars

----------------------------------------------------------------------------
(* start_job and docker.run on one job: the environment and the network     *)
(* access decided from the job's run_command and the configuration, and the *)
(* command line they become                                                 *)

\* run_command of a job: the words of the command and the blanks between them
Blanks == " "

RunCommands ==
    {<<"cohortextractor:latest", Blanks, "generate_cohort">>,
     <<"cohortextractor:latest", Blanks, "generate_cohort", Blanks, "--output-dir=out">>,
     <<"cohortextractor:latest", Blanks, "generate_measures">>,
     <<"cohortextractor:latest">>,
     <<"stata-mp:latest", Blanks, "analysis.do">>,
     <<"python:latest", Blanks, "generate_cohort">>,
     <<"python:latest", Blanks, "cohortextractor:latest", Blanks, "generate_cohort">>,
     <<"r:latest", Blanks, "plot.R", Blanks, "out/1.csv">>}

\* shlex.split on a command without quotes
shlex_split(run_command) == SelectSeq(run_command, LAMBDA word : word # Blanks)

\* The images of the cohortextractor: "cohortextractor:<version>"
CohortExtractorImages == {"cohortextractor:latest"}

is_generate_cohort_command(args) ==
    /\ Len(args) > 1
    /\ args[1] \in CohortExtractorImages
    /\ args[2] = "generate_cohort"

DOCKER_REGISTRY == "docker.opensafely.org"
LABEL == "job-runner"

container_name(slug) == "job-" \o slug
volume_name(slug) == "volume-" \o slug

\* Variant: the dummy data backend is not looked at
allow_network_access_for_cohorts(action_args, cfg) == is_generate_cohort_command(action_args)

\* start_job: whether the container may use the network
allow_network_access_of(action_args, cfg) ==
    is_generate_cohort_command(action_args) /\ ~cfg.USING_DUMMY_DATA_BACKEND

\* start_job: the env dict, as the sequence of its items
env_of(action_args, database_name, cfg) ==
    IF is_generate_cohort_command(action_args) /\ ~cfg.USING_DUMMY_DATA_BACKEND
    THEN << <<"DATABASE_URL", DATABASE_URLS[database_name]>> >>
         \o (IF cfg.TEMP_DATABASE_NAME # ""
             THEN << <<"TEMP_DATABASE_NAME", cfg.TEMP_DATABASE_NAME>> >>
             ELSE <<>>)
    ELSE <<>>

RECURSIVE env_args(_)
env_args(env) ==
    IF env = <<>> THEN <<>>
    ELSE <<"--env", Head(env)[1] \o "=" \o Head(env)[2]>> \o env_args(Tail(env))

\* Variant: the network is left as docker sets it up
run_with_network(name, args, volume, env, allow_network_access) ==
    <<"docker", "run", "--init", "--detach", "--label", LABEL, "--name", name>>
        \o <<"--volume", volume[1] \o ":" \o volume[2]>>
        \o env_args(env)
        \o args

\* docker.run: the command line
run(name, args, volume, env, allow_network_access) ==
    <<"docker", "run", "--init", "--detach", "--label", LABEL, "--name", name>>
        \o (IF ~allow_network_access THEN <<"--network", "none">> ELSE <<>>)
        \o <<"--volume", volume[1] \o ":" \o volume[2]>>
        \o env_args(env)
        \o args

\* The database names a job can carry: validate_job_request has accepted it
ValidDatabaseNames(cfg) ==
    IF cfg.USING_DUMMY_DATA_BACKEND THEN {"dummy"}
    ELSE {name \in DOMAIN DATABASE_URLS : DATABASE_URLS[name] # ""}

InitRun ==
    \E run_command \in RunCommands, dummy \in BOOLEAN, temp \in {"", "temp_db"} :
        LET cfg == [MAX_WORKERS |-> 1, USING_DUMMY_DATA_BACKEND |-> dummy,
                    TEMP_DATABASE_NAME |-> temp]
        IN \E database_name \in ValidDatabaseNames(cfg) :
              /\ store = EmptyDb
              /\ tx = NoTx
              /\ loop = IdleLoop
              /\ docker = [j \in JobIds |-> NoContainer]
              /\ disk = [w \in Workspaces |-> EmptyWorkspace]
              /\ kills = 0
              /\ config = cfg
              /\ now = MinNow
              /\ hist = [NoHist EXCEPT !.start =
                           [NoStart EXCEPT !.pc = "start_job",
                                           !.run_command = run_command,
                                           !.database_name = database_name,
                                           !.slug = "w-1-a-1"]]

\* start_job up to the check of the image
StartJobEnvironment ==
    /\ hist.start.pc = "start_job"
    /\ LET action_args == shlex_split(hist.start.run_command)
       IN hist' = [hist EXCEPT !.start =
                     [@ EXCEPT !.pc = "image",
                               !.allow_network_access =
                                   allow_network_access_of(action_args, config),
                               !.env = env_of(action_args, hist.start.database_name,
                                              config)]]
    /\ UNCHANGED <<store, tx, loop, docker, disk, kills, config, now>>

\* start_job: the image is not there, JobError
StartJobImageMissing ==
    /\ hist.start.pc = "image"
    /\ hist' = [hist EXCEPT !.start = [@ EXCEPT !.pc = "raised"]]
    /\ UNCHANGED <<store, tx, loop, docker, disk, kills, config, now>>

\* start_job: docker.run
StartJobDockerRun ==
    /\ hist.start.pc = "image"
    /\ LET action_args == shlex_split(hist.start.run_command)
           full_image == DOCKER_REGISTRY \o "/" \o action_args[1]
       IN hist' = [hist EXCEPT !.start =
                     [@ EXCEPT !.pc = "started",
                               !.run_args =
                                   run(container_name(hist.start.slug),
                                       <<full_image>> \o Tail(action_args),
                                       <<volume_name(hist.start.slug), "/workspace">>,
                                       hist.start.env,
                                       hist.start.allow_network_access)]]
    /\ UNCHANGED <<store, tx, loop, docker, disk, kills, config, now>>

NextRun == StartJobEnvironment \/ StartJobImageMissing \/ StartJobDockerRun

SpecRun == InitRun /\ [][NextRun]_vars

----------------------------------------------------------------------------
(* The sync cycle: sync() fetches the active job requests with api_get,     *)
(* runs create_or_update_jobs on each and posts their jobs with api_post.   *)
(* Nothing in sync.py catches an exception of api_request: it leaves sync   *)
(* and main, and the process is started again                               *)

MaxLog == 2       \* lines the sync process logs
MaxResults == 1   \* job requests in one answer of the coordinator

StatusCodes == {200, 304, 400, 404, 500}
JsonText == "{..}"
Texts == {"", JsonText}

\* The answers session.request can give, `results` being the job requests
\* in the body of an answer that is no error and is a JSON document
Responses(results) ==
    {[status_code |-> s, text |-> t,
      results |-> IF t = JsonText /\ s < 400 THEN results ELSE <<>>] :
        s \in StatusCodes, t \in Texts}

HTTPError(text) == [kind |-> "HTTPError", text |-> text]
JSONDecodeError == [kind |-> "JSONDecodeError", text |-> "Expecting value"]

raise_for_status_unless_400(response) ==
    IF response.status_code >= 401 /\ response.status_code < 500
    THEN HTTPError("Client Error")
    ELSE IF response.status_code >= 500 /\ response.status_code < 600
         THEN HTTPError("Server Error")
         ELSE NoErr

\* response.raise_for_status(): HTTPError for the 4xx and 5xx statuses
raise_for_status(response) ==
    IF response.status_code >= 400 /\ response.status_code < 500
    THEN HTTPError("Client Error")
    ELSE IF response.status_code >= 500 /\ response.status_code < 600
         THEN HTTPError("Server Error")
         ELSE NoErr

\* api_request, given the response of session.request: the lines it logs,
\* the exception that leaves it and the value it returns
api_request(method, response) ==
    LET logged == IF response.status_code = 400
                  THEN << <<"job-server returned 400: %s", response.text>> >>
                  ELSE <<>>
        err == raise_for_status(response)
    IN IF err # NoErr
       THEN [logged |-> logged, raised |-> err, value |-> <<>>]
       ELSE IF response.text # JsonText
            THEN [logged |-> logged, raised |-> JSONDecodeError, value |-> <<>>]
            ELSE [logged |-> logged, raised |-> NoErr, value |-> response.results]

api_get(response) == api_request("get", response)

api_post(response) == api_request("post", response)

\* The lists of active job requests the coordinator can answer with
ResultLists ==
    LET known == {q \in JobRequests : KnownRequest(q)}
    IN {l \in UNION {[1..n -> known] : n \in 0..MaxResults} :
           \A i, j \in DOMAIN l : l[i].id = l[j].id => i = j}

\* The job requests of the last GET that create_or_update_jobs still has to
\* act on: the call is a no-op for a request that has jobs
Unhandled(sync) ==
    {i \in DOMAIN sync.results : ~related_jobs_exist(store, sync.results[i])}

\* find_where(Job, job_request_id__in=job_request_ids), as ids
jobs_of_requests(db, job_requests) ==
    LET ids == {job_requests[i].id : i \in DOMAIN job_requests}
        F[n \in 0..Len(db.jobs)] ==
            IF n = 0 THEN <<>>
            ELSE IF db.jobs[n].job_request_id \in ids
                 THEN Append(F[n - 1], db.jobs[n].id)
                 ELSE F[n - 1]
    IN F[Len(db.jobs)]

\* sync(): api_get("job-requests")["results"]
SyncApiGet ==
    /\ hist.sync.pc = "get"
    /\ Len(hist.sync.log) < MaxLog
    /\ \E response \in UNION {Responses(results) : results \in ResultLists} :
           LET r == api_get(response)
           IN hist' = [hist EXCEPT !.sync =
                         [@ EXCEPT !.pc = IF r.raised = NoErr THEN "jobs" ELSE "exited",
                                   !.results = IF r.raised = NoErr THEN r.value ELSE <<>>,
                                   !.log = @ \o r.logged,
                                   !.call = [method |-> "get", response |-> response],
                                   !.raised = r.raised]]
    /\ UNCHANGED <<store, tx, loop, docker, disk, kills, config, now>>

\* sync(): create_or_update_jobs(job_request) for the next job request
SyncCreateOrUpdateJobs ==
    /\ hist.sync.pc = "jobs"
    /\ Unhandled(hist.sync) # {}
    /\ LET i == CHOOSE i \in Unhandled(hist.sync) :
                    \A j \in Unhandled(hist.sync) : i <= j
       IN \E fault \in Faults : CreateOrUpdateJobs(hist.sync.results[i], fault)

\* sync(): api_post("jobs", json=jobs_data)
SyncApiPost ==
    /\ hist.sync.pc = "jobs"
    /\ tx.phase = "none"
    /\ Unhandled(hist.sync) = {}
    /\ Len(hist.sync.log) < MaxLog
    /\ \E response \in Responses(<<>>) :
           LET r == api_post(response)
           IN hist' = [hist EXCEPT !.sync =
                         [@ EXCEPT !.pc = IF r.raised = NoErr THEN "get" ELSE "exited",
                                   !.posted = jobs_of_requests(store, hist.sync.results),
                                   !.log = @ \o r.logged,
                                   !.call = [method |-> "post", response |-> response],
                                   !.raised = r.raised]]
    /\ UNCHANGED <<store, tx, loop, docker, disk, kills, config, now>>

\* main() is started again after an exception has ended the process
SyncStarts ==
    /\ hist.sync.pc = "exited"
    /\ hist' = [hist EXCEPT !.sync = [@ EXCEPT !.pc = "get", !.results = <<>>]]
    /\ UNCHANGED <<store, tx, loop, docker, disk, kills, config, now>>

NextSync ==
    \/ SyncApiGet
    \/ SyncCreateOrUpdateJobs
    \/ TxInsert
    \/ TxCommit
    \/ TxRaise
    \/ SyncApiPost
    \/ SyncStarts

SpecSync == Init /\ [][NextSync]_vars

----------------------------------------------------------------------------
(* Properties *)

Terminal == {COMPLETED, FAILED}
Active == {PENDING, RUNNING}
Ids(db) == 1..Len(db.jobs)
RequestIds == 1..MaxRequests

\* The rows of both tables that belong to one job request
JobsOf(db, r) == SelectSeq(db.jobs, LAMBDA row : row.job_request_id = r)
ReqsOf(db, r) == SelectSeq(db.reqs, LAMBDA row : row.id = r)

\* C1: in every reachable state of the store each (workspace, action) pair
\* has at most one job whose status is Pending or Running
C1_OneActiveJobPerAction ==
    \A i, k \in Ids(store) :
        ( /\ store.jobs[i].status \in Active
          /\ store.jobs[k].status \in Active
          /\ store.jobs[i].workspace = store.jobs[k].workspace
          /\ store.jobs[i].action = store.jobs[k].action ) => i = k

\* A later request needed an action that already had an active job: its job
\* waits for the job of the earlier request
C1_Witness ==
    \E i, k \in Ids(store) :
        /\ store.jobs[i].status \in Active
        /\ store.jobs[k].status \in Active
        /\ store.jobs[i].job_request_id # store.jobs[k].job_request_id
        /\ store.jobs[i].workspace = store.jobs[k].workspace
        /\ store.jobs[i].action \in Range(store.jobs[k].requires_outputs_from)
        /\ i \in Range(store.jobs[k].wait_for_job_ids)

\* C2: a job is Running (or its container has been started) only when every
\* job in its wait_for_job_ids has stored status Completed, and a step that
\* moves a job from Pending to Running finds them Completed in the store
C2_StartedOnlyAfterDependencies ==
    /\ [](\A j \in Ids(store) :
            (store.jobs[j].status \in {RUNNING, COMPLETED} \/ docker[j].runs > 0)
                => \A k \in Range(store.jobs[j].wait_for_job_ids) :
                       store.jobs[k].status = COMPLETED)
    /\ [][\A j \in Ids(store) :
            (store.jobs[j].status = PENDING /\ store'.jobs[j].status = RUNNING)
                => \A k \in Range(store.jobs[j].wait_for_job_ids) :
                       store.jobs[k].status = COMPLETED]_vars

C2_Witness ==
    \E j \in Ids(store) :
        /\ store.jobs[j].status = RUNNING
        /\ store.jobs[j].wait_for_job_ids # <<>>
        /\ docker[j].runs = 1

\* C3: the number of jobs with stored status Running never exceeds
\* MAX_WORKERS, and a ready Pending job stays Pending while the workers are
\* all taken
C3_RunningWithinMaxWorkers ==
    /\ [](count_where_status(store, RUNNING) <= config.MAX_WORKERS)
    /\ [][\A j \in Ids(store) :
            (store.jobs[j].status = PENDING /\ store'.jobs[j].status = RUNNING)
                => count_where_status(store, RUNNING) < config.MAX_WORKERS]_vars

C3_Witness ==
    /\ count_where_status(store, RUNNING) = config.MAX_WORKERS
    /\ \E j \in Ids(store) :
        /\ store.jobs[j].status = PENDING
        /\ store.jobs[j].status_message.text = "Waiting for available workers"
        /\ \A k \in Range(store.jobs[j].wait_for_job_ids) :
               store.jobs[k].status = COMPLETED

\* C4: once a job's stored status is Completed or Failed no step changes any
\* field of its row, and rows are only ever added with a new id
C4_TerminalRowsFrozen ==
    [][ /\ Len(store'.jobs) >= Len(store.jobs)
        /\ \A j \in Ids(store) :
              /\ store'.jobs[j].id = j
              /\ store.jobs[j].status \in Terminal => store'.jobs[j] = store.jobs[j] ]_vars

\* An action was re-run: its earlier job is terminal and the loop has moved
\* the new job, which has a new id
C4_Witness ==
    \E j, k \in Ids(store) :
        /\ j < k
        /\ store.jobs[j].status \in Terminal
        /\ store.jobs[j].workspace = store.jobs[k].workspace
        /\ store.jobs[j].action = store.jobs[k].action
        /\ store.jobs[k].action \in Actions
        /\ store.jobs[k].status = RUNNING

\* C5: in every committed state of the store every job row's job_request_id
\* is the id of a SavedJobRequest row
C5_JobRequestResolves ==
    \A j \in Ids(store) : ReqsOf(store, store.jobs[j].job_request_id) # <<>>

\* A synthetic failed job and an expanded job are both in the store
C5_Witness ==
    /\ \E j \in Ids(store) : store.jobs[j].action = "" /\ store.jobs[j].status = FAILED
    /\ \E j \in Ids(store) : store.jobs[j].action \in Actions

\* C6: when a job already references the id of a request, no step of the
\* sync process changes the rows of that request in either table, and the
\* call of create_or_update_jobs that finds such a job changes nothing at
\* all: submitting the request again leaves the store as it was
C6_ResubmissionChangesNothing ==
    [][ /\ \A r \in RequestIds :
              (exists_where_request(store, r) /\ loop' = loop)
                  => /\ JobsOf(store', r) = JobsOf(store, r)
                     /\ ReqsOf(store', r) = ReqsOf(store, r)
        /\ (hist'.noop /\ ~hist.noop) => store' = store ]_vars

\* A request was submitted again after the run loop had worked on its jobs
C6_Witness ==
    /\ hist.noop
    /\ \E j \in Ids(store) : store.jobs[j].status \in {RUNNING, COMPLETED}
    /\ \A r \in RequestIds : Len(ReqsOf(store, r)) <= 1

ProjectedErrors == {"GitError", "ProjectValidationError", "JobRequestError"}

\* C7: once create_or_update_jobs has returned for a request, at least one
\* job row references the request; when the expansion raised a GitError, a
\* ProjectValidationError or a JobRequestError there is exactly one, with
\* status Failed, empty action and status_message "<kind>: <text>"
C7_EveryRequestHasAJob ==
    /\ \A r \in hist.returned : JobsOf(store, r) # <<>>
    /\ \A e \in hist.raised :
          e[2].kind \in ProjectedErrors
              => LET rows == JobsOf(store, e[1])
                 IN /\ Len(rows) = 1
                    /\ rows[1].status = FAILED
                    /\ rows[1].action = ""
                    /\ rows[1].status_message = Message(e[2].kind \o ": " \o e[2].text)

\* One request was expanded into jobs, and the next one, whose actions were
\* all scheduled already, raised inside the transaction and has its
\* synthetic job
C7_Witness ==
    /\ \E r \in hist.returned : \A e \in hist.raised : e[1] # r
    /\ \E e \in hist.raised :
          e[2].text = "All requested actions were already scheduled to run"

\* C8: the SavedJobRequest and the jobs of one request become visible in one
\* step or never: while the expansion has not returned (it is under way, or
\* the process was killed) the store holds no row of the request; when it
\* raised, none of the jobs it had inserted is in the store
C8_ExpansionIsAtomic ==
    /\ [](\A r \in RequestIds :
            r \notin hist.returned
                => JobsOf(store, r) = <<>> /\ ReqsOf(store, r) = <<>>)
    /\ [](\A e \in hist.raised :
            \A i \in 1..Len(JobsOf(store, e[1])) :
                JobsOf(store, e[1])[i].action = "")
    /\ [][\A r \in RequestIds :
            /\ Len(ReqsOf(store', r)) <= 1
            /\ JobsOf(store, r) # <<>>
                  => Len(JobsOf(store', r)) = Len(JobsOf(store, r))]_vars

\* A request for c and b raised inside the transaction after the job for c
\* had been inserted (b needs a, which had failed)
C8_Witness ==
    \E e \in hist.raised :
        /\ e[2].text = "a failed on a previous run and must be re-run"
        /\ ReqsOf(store, e[1])[1].original.requested_actions = <<"c", "b">>
        /\ \A j \in Ids(store) : store.jobs[j].action # "c"

\* C9: once the container of a job exists (running or exited), start_job
\* returns early: no step starts a second container or populates the volume
\* again while the container exists, no job ever gets two containers, and
\* the call of start_job that finds the container goes on to mark the job
\* Running
C9_StartJobReturnsEarly ==
    /\ [](\A j \in JobIds : docker[j].runs <= 1)
    /\ [][\A j \in JobIds :
            container_exists(docker[j])
                => /\ docker'[j].runs = docker[j].runs
                   /\ docker'[j].populated = docker[j].populated]_vars
    /\ [][\A j \in JobIds :
            ( /\ loop.pc = "start_job"
              /\ loop.job = j
              /\ container_exists(docker[j])
              /\ loop' # loop
              /\ kills' = kills ) => loop'.pc = "mark_running"]_vars

\* The process was killed between docker run and the status update, the
\* container has exited meanwhile, and the job has been marked Running
C9_Witness ==
    \E j \in Ids(store) :
        /\ kills > 0
        /\ store.jobs[j].status = RUNNING
        /\ docker[j].container = "exited"
        /\ docker[j].runs = 1
        /\ docker[j].populated = 1
        /\ loop.pc = "iter"

\* The part of a workspace the outputs and the manifests make up
View(ws) == [files |-> ws.files, manifest |-> ws.manifest,
             mfiles |-> ws.mfiles, mmanifest |-> ws.mmanifest]

\* The job finalise_job is run for, and whether a finalise_job for it has
\* run to its end
FinalisedJob == Len(store.jobs)
FinaliseFinished ==
    \/ store.jobs[FinalisedJob].status \in Terminal
    \/ loop.job = FinalisedJob /\ loop.pc \in {"mark_completed", "mark_failed", "cleanup"}

\* The workspace one uninterrupted finalise_job run at time t produces
Uninterrupted(t) == finalise_job(hist.before, store.jobs[FinalisedJob], hist.container, t)

\* completed_at of the latest finalise_job run, from the job's metadata.json
LatestRun ==
    LET ws == disk[store.jobs[FinalisedJob].workspace]
    IN (CHOOSE e \in ws.logdir : e.job_id = FinalisedJob).completed_at

FinalisedWorkspace == disk[store.jobs[FinalisedJob].workspace]
NewManifests == {Uninterrupted(t).manifest : t \in MinNow..MaxNow}

\* The entry of an action in a manifest
ManifestEntry(manifest, action) ==
    manifest.actions[CHOOSE i \in 1..Len(manifest.actions) : manifest.actions[i].action = action]

\* The manifest on disk is the complete previous one or a complete new one
ManifestIsWhole ==
    FinalisedWorkspace.manifest \in {hist.before.manifest} \cup NewManifests

\* The replacement of the manifest is the last write of finalise_job: with
\* it the log, the outputs, the deletions and the medium privacy workspace
\* are as a complete finalise_job leaves them, and finalise_job ends
ManifestIsLastWrite ==
    [][\A w \in Workspaces :
          disk'[w].manifest # disk[w].manifest
              => /\ loop.pc \notin {"mark_completed", "mark_failed"}
                 /\ loop'.pc \in {"mark_completed", "mark_failed"}
                 /\ LET job == store.jobs[loop.job]
                        done == finalise_job(hist.before, job, hist.container, LatestRun)
                    IN /\ job.workspace = w
                       /\ disk'[w] = [done EXCEPT !.logdir = disk[w].logdir]]_vars

RerunBegun(ws, action, id) ==
    \E e \in ws.logdir : e.job_id > id /\ store.jobs[e.job_id].action = action

FinaliseReturned ==
    \/ loop.job = FinalisedJob /\ loop.pc = "mark_completed"
    \/ store.jobs[FinalisedJob].status = COMPLETED

\* The files in a directory that match the output patterns of an action
PresentFor(files, action) ==
    UNION {UNION {glob_volume_files(files, output_spec[i][3]) : i \in 1..Len(output_spec)} :
              output_spec \in Revisions(action)}

\* C12: after finalise_job has returned successfully, the paths the manifest
\* attributes to the job's action are exactly the files of that action
\* present in the high privacy workspace, which are exactly the outputs
\* matched in this run
C12_ManifestFilesEqualDisk ==
    FinaliseReturned =>
        LET action == store.jobs[FinalisedJob].action
            ws == FinalisedWorkspace
            outputs == DOMAIN find_matching_outputs(store.jobs[FinalisedJob].output_spec, hist.container.files).outputs
        IN /\ FilesOfAction(ws.manifest, action) = PresentFor(ws.files, action)
           /\ FilesOfAction(ws.manifest, action) = outputs
           /\ \A other \in Actions \ {action} :
                 FilesOfAction(ws.manifest, other) = FilesOfAction(hist.before.manifest, other)

\* finalise_job has returned for a re-run that did not produce again a file
\* of the previous run
C12_Witness ==
    /\ FinaliseReturned
    /\ hist.first # NoStamp
    /\ LET action == store.jobs[FinalisedJob].action
       IN /\ FilesOfAction(FinalisedWorkspace.manifest, action) # {}
          /\ \E f \in FilesOfAction(hist.before.manifest, action) :
                f \notin FilesOfAction(FinalisedWorkspace.manifest, action)

\* C13: after finalise_job has completed for a re-run of an action, no file
\* the previous manifest attributed to the action and this run did not
\* produce remains in the high or the medium privacy workspace, and no step
\* of finalise_job deletes a file attributed to another action
C13_NoStaleOutputSurvives ==
    /\ [](FinaliseFinished =>
            LET action == store.jobs[FinalisedJob].action
                ws == FinalisedWorkspace
                outputs == DOMAIN find_matching_outputs(store.jobs[FinalisedJob].output_spec, hist.container.files).outputs
            IN \A f \in FilesOfAction(hist.before.manifest, action) \ outputs :
                  f \notin ws.files /\ f \notin ws.mfiles)
    /\ [][\A w \in Workspaces : \A other \in Actions :
            (loop.job # NoJob /\ other # store.jobs[loop.job].action)
                => \A f \in FilesOfAction(disk[w].manifest, other) :
                      /\ f \in disk[w].files => f \in disk'[w].files
                      /\ f \in disk[w].mfiles => f \in disk'[w].mfiles]_vars

\* A re-run has completed and a moderately sensitive file of the previous
\* run, which this run did not produce, is gone from both workspaces
C13_Witness ==
    /\ FinaliseFinished
    /\ hist.first # NoStamp
    /\ \E f \in FilesOfAction(hist.before.manifest, store.jobs[FinalisedJob].action) :
          /\ f \in hist.before.files
          /\ f \in hist.before.mfiles
          /\ f \notin FinalisedWorkspace.files
          /\ f \notin FinalisedWorkspace.mfiles

\* No finalise_job is under way or left unfinished
NoFinaliseUnderWay == hist.first = NoStamp \/ FinaliseFinished

\* C14: after any sequence of finalise_job runs, every output file in the
\* medium privacy workspace has an entry in the current manifest whose
\* privacy_level is moderately_sensitive
C14_MediumHoldsOnlyModeratelySensitive ==
    NoFinaliseUnderWay =>
        LET ws == FinalisedWorkspace
        IN \A f \in ws.mfiles :
              /\ f \in DOMAIN ws.manifest.files
              /\ ws.manifest.files[f].privacy_level = "moderately_sensitive"

\* C15: in every metadata.json on disk each variable of the container's
\* environment whose name is not in SAFE_ENVIRONMENT_VARIABLES carries
\* xxxx-REDACTED-xxxx and every other variable its value, so what is
\* persisted does not depend on the values of the variables that are not
\* safelisted
C15_SecretsRedactedBeforePersisted ==
    \A w \in Workspaces : \A e \in disk[w].logdir :
        /\ Len(e.container_metadata.Env) = Len(hist.env)
        /\ \A n \in 1..Len(hist.env) :
              e.container_metadata.Env[n] =
                  hist.env[n].name \o <<"=">> \o
                      IF hist.env[n].name \in SAFE_ENVIRONMENT_VARIABLES
                      THEN hist.env[n].value
                      ELSE REDACTED

\* A metadata.json has been written for a container with a safelisted
\* variable and a variable that is not, whose value contains "="
C15_Witness ==
    \E w \in Workspaces : \E e \in disk[w].logdir :
        /\ Len(hist.env) = MaxEnv
        /\ hist.env[1].name \in SAFE_ENVIRONMENT_VARIABLES
        /\ hist.env[2].name \notin SAFE_ENVIRONMENT_VARIABLES
        /\ hist.env[2].value = <<"a", "=", "b">>
        /\ e.container_metadata.Env[2] = hist.env[2].name \o <<"=">> \o REDACTED

\* The text finalise_job is to raise for the finalised job: "" for none
ExpectedErrorText ==
    LET spec == store.jobs[FinalisedJob].output_spec
        none(i) == glob_volume_files(hist.container.files, spec[i][3]) = {}
    IN IF hist.container.exit_code # 0 THEN "Job exited with an error code"
       ELSE IF Len(spec) = 1
       THEN IF none(1) THEN "No outputs found matching: " \o spec[1][3] ELSE ""
       ELSE IF none(1) /\ none(2)
            THEN "No outputs found matching: " \o spec[1][3] \o ", " \o spec[2][3]
       ELSE IF none(1) THEN "No outputs found matching: " \o spec[1][3]
       ELSE IF none(2) THEN "No outputs found matching: " \o spec[2][3]
       ELSE ""

\* finalise_job has ended for the finalised job, by returning or by raising
FinaliseEnded ==
    loop.job = FinalisedJob /\ loop.pc \in {"mark_completed", "mark_failed"}

\* C16: finalise_job raises JobError "Job exited with an error code" when
\* the exit code is not 0, otherwise JobError "No outputs found matching:
\* <patterns>" with every pattern that matched no file, otherwise nothing;
\* when it raises, the log directory, the matched outputs and the manifest
\* have been written, and the run loop marks the job Failed with the message
C16_ErrorsClassifiedAndRaisedLast ==
    /\ [](FinaliseEnded =>
            /\ (loop.pc = "mark_completed") = (ExpectedErrorText = "")
            /\ loop.pc = "mark_failed" =>
                  LET job == store.jobs[FinalisedJob]
                      ws == FinalisedWorkspace
                  IN /\ loop.err = Err("JobError", ExpectedErrorText)
                     /\ \E e \in ws.logdir : e.job_id = job.id /\ e.status = FAILED
                     /\ <<job.action, job.id>> \in ws.logs
                     /\ DOMAIN find_matching_outputs(job.output_spec, hist.container.files).outputs
                            \subseteq ws.files
                     /\ ManifestStatus(ws.manifest, job.action) = FAILED
                     /\ ManifestEntry(ws.manifest, job.action).job_id = job.id)
    /\ [][(FinaliseEnded /\ loop.pc = "mark_failed" /\ loop' # loop /\ kills' = kills)
             => /\ store'.jobs[FinalisedJob].status = FAILED
                /\ store'.jobs[FinalisedJob].status_message
                       = Message("JobError: " \o ExpectedErrorText)]_vars
    /\ [](store.jobs[FinalisedJob].status = FAILED
             => store.jobs[FinalisedJob].status_message
                    = Message("JobError: " \o ExpectedErrorText))

\* A job whose container exited with 0 and matched one of its two patterns
\* has been marked Failed, its matched output is in the workspace
C16_Witness ==
    /\ hist.first # NoStamp
    /\ store.jobs[FinalisedJob].status = FAILED
    /\ store.jobs[FinalisedJob].status_message
           = Message("JobError: No outputs found matching: out/*.log")
    /\ "out/1.csv" \in FinalisedWorkspace.files
    /\ ManifestStatus(FinalisedWorkspace.manifest, "a") = FAILED

\* C17: the step in which a docker command fails inside start_job,
\* finalise_job or cleanup_job changes no job row and ends the iteration,
\* and no job is marked Failed later for a container that has vanished
\* (only the clean-up after the failure removes a container before
\* finalise_job has read it)
C17_RuntimeFailureMarksNothing ==
    /\ [][hist'.failures # hist.failures => store' = store /\ loop' = IdleLoop]_vars
    /\ [](\A j \in Ids(store) :
            store.jobs[j].status_message # Message("JobError: Job container has vanished"))

InsideManageJobs == {"start_job", "start_run", "finalise", "cleanup"}

\* The row of job j after one of the run loop's mark_job_as_* updates
MarkedBy(j) ==
    {mark_job_as_running(store, j).jobs[j],
     mark_job_as_completed(store, j).jobs[j],
     mark_job_as_failed(store, j, loop.err).jobs[j],
     mark_job_as_failed(store, j,
         Err("JobError", "Not starting as dependency failed")).jobs[j]}

\* C19: a step the run loop takes inside start_job, finalise_job or
\* cleanup_job leaves the job table as it is; a stored job's status changes
\* to Running, Completed or Failed only in a step at one of the loop's
\* mark_job_as_* calls, whose update it is; and when finalise_job fails the
\* loop goes on to mark_job_as_failed with the error that was raised
C19_OnlyTheLoopMarksJobs ==
    [][/\ (loop' # loop /\ loop.pc \in InsideManageJobs) => store' = store
       /\ \A j \in Ids(store) \cap Ids(store') :
              (/\ store'.jobs[j].status # store.jobs[j].status
               /\ store'.jobs[j].status \in {RUNNING, COMPLETED, FAILED})
                  => /\ loop.pc \in {"iter", "mark_running", "mark_failed", "mark_completed"}
                     /\ loop' # loop
                     /\ store'.jobs[j] \in MarkedBy(j)
       /\ (loop.pc = "finalise" /\ loop'.pc = "mark_failed")
              => /\ loop'.err # NoErr
                 /\ store'.jobs[loop.job].status = RUNNING]_vars

\* finalise_job has raised for a job whose container exited with an error,
\* its log directory is written and the job is still Running: the loop is
\* about to mark it
C19_Witness ==
    /\ loop.pc = "mark_failed"
    /\ loop.err = Err("JobError", "Job exited with an error code")
    /\ store.jobs[loop.job].status = RUNNING
    /\ docker[loop.job].container = "exited"
    /\ disk[store.jobs[loop.job].workspace].logdir # EmptyWorkspace.logdir

DependencyFailed == Message("JobError: Not starting as dependency failed")

\* Job j is stored and one of the jobs it waits for is Failed
HasFailedDependency(j) ==
    /\ j \in Ids(store)
    /\ FAILED \in get_states_of_awaited_jobs(store, store.jobs[j])

\* Nothing has ever been created in docker for job j
NeverStarted(j) ==
    /\ docker[j].container = "absent"
    /\ ~docker[j].volume
    /\ docker[j].runs = 0
    /\ docker[j].populated = 0

\* C20: the step in which the loop polls a Pending job that waits for a
\* Failed job marks it Failed with the message of JobError("Not starting as
\* dependency failed") and leaves docker alone; a job so marked keeps that
\* status and message for ever; and a job that waits for a Failed job is
\* never Running and never has had a volume or a container
C20_FailedDependencyFailsTheJob ==
    /\ [][(/\ loop.pc = "iter"
            /\ loop.todo # <<>>
            /\ loop' # loop
            /\ kills' = kills
            /\ Head(loop.todo).status = PENDING
            /\ HasFailedDependency(Head(loop.todo).id))
              => /\ store'.jobs[Head(loop.todo).id].status = FAILED
                 /\ store'.jobs[Head(loop.todo).id].status_message = DependencyFailed
                 /\ loop'.pc = "iter"
                 /\ docker' = docker]_vars
    /\ [][\A j \in Ids(store) :
              (store.jobs[j].status = FAILED /\ store.jobs[j].status_message = DependencyFailed)
                  => /\ j \in Ids(store')
                     /\ store'.jobs[j].status = FAILED
                     /\ store'.jobs[j].status_message = DependencyFailed]_vars
    /\ [](\A j \in JobIds :
              HasFailedDependency(j) => store.jobs[j].status # RUNNING /\ NeverStarted(j))

\* A job whose dependency ran and failed has been marked Failed for it,
\* while the loop goes on with the next row
C20_Witness ==
    \E j \in Ids(store) :
        /\ store.jobs[j].status = FAILED
        /\ store.jobs[j].status_message = DependencyFailed
        /\ NeverStarted(j)
        /\ \E d \in Range(store.jobs[j].wait_for_job_ids) :
              /\ store.jobs[d].status = FAILED
              /\ docker[d].runs = 1
        /\ loop.pc = "iter"

\* The step that ends the transaction of an expansion: COMMIT, or ROLLBACK
\* followed by create_failed_job.  Until then the file holds the table as
\* it was when the request arrived
ExpansionEnds == tx.phase = "open" /\ tx'.phase = "none" /\ kills' = kills

\* The request being expanded and its workspace on disk
Expanded == tx.req
ExpandedWorkspace == disk[tx.req.workspace]

HasActiveJob(db, workspace, action) == find_active(db, workspace, action) # {}

InForceSet(job_request, action) ==
    job_request.force_run_dependencies \/ action \in Range(job_request.requested_actions)

\* The manifest records the action as successful and all its files exist
HasHistoricalOutputs(ws, action) ==
    /\ ManifestStatus(ws.manifest, action) = SUCCEEDED
    /\ FilesOfAction(ws.manifest, action) \subseteq ws.files

\* The manifest has no entry for the action, or a file it lists is missing
HasNoUsableOutputs(ws, action) ==
    \/ ManifestStatus(ws.manifest, action) = "none"
    \/ /\ ManifestStatus(ws.manifest, action) = SUCCEEDED
       /\ ~(FilesOfAction(ws.manifest, action) \subseteq ws.files)

\* The expansion goes on to the needs of the action: it has no active job
\* and is in the force set or without usable outputs
Descends(db, job_request, action) ==
    /\ ~HasActiveJob(db, job_request.workspace, action)
    /\ \/ InForceSet(job_request, action)
       \/ HasNoUsableOutputs(disk[job_request.workspace], action)

RECURSIVE Reached(_, _, _)
\* The actions the expansion can come to from the given ones
Reached(db, job_request, actions) ==
    LET more == actions \cup UNION {Range(Needs[action]) :
                    action \in {x \in actions : Descends(db, job_request, x)}}
    IN IF more = actions THEN actions ELSE Reached(db, job_request, more)

\* The actions about which the expansion asks the manifest, unless it has
\* failed before it comes to them: those it can come to that are not in
\* the force set and have no active job
Consulted(db, job_request) ==
    {action \in Reached(db, job_request, Range(job_request.requested_actions)) :
        /\ ~InForceSet(job_request, action)
        /\ ~HasActiveJob(db, job_request.workspace, action)}

FailedOnAPreviousRun(action) ==
    Message("JobRequestError: " \o action \o " failed on a previous run and must be re-run")

\* The actions the expansion asks the manifest about that the manifest
\* records as failed
ConsultedAndFailed(db, job_request) ==
    {action \in Consulted(db, job_request) :
        ManifestStatus(disk[job_request.workspace].manifest, action)
            \notin {"none", SUCCEEDED}}

\* C21: when the expansion asks the manifest about an action (not in the
\* force set, no Pending or Running job) that the manifest records as
\* failed, the request ends with exactly one more row in the job table: a
\* Failed job of the request, with empty action and the message
\* "JobRequestError: <action> failed on a previous run and must be re-run"
\* for such an action (the first the expansion comes to); no Pending job of
\* the request is stored and the earlier rows are as they were
C21_FailedDependencyFailsTheRequest ==
    [][(ExpansionEnds /\ ConsultedAndFailed(store, Expanded) # {})
          => LET rows == JobsOf(store', Expanded.id)
             IN /\ Len(rows) = 1
                /\ rows[1].status = FAILED
                /\ rows[1].action = ""
                /\ \E action \in ConsultedAndFailed(store, Expanded) :
                      rows[1].status_message = FailedOnAPreviousRun(action)
                /\ Cardinality(ConsultedAndFailed(store, Expanded)) = 1
                      => \A action \in ConsultedAndFailed(store, Expanded) :
                            rows[1].status_message = FailedOnAPreviousRun(action)
                /\ Len(store'.jobs) = Len(store.jobs) + 1
                /\ SubSeq(store'.jobs, 1, Len(store.jobs)) = store.jobs]_vars

\* A request for c and b, on a workspace whose manifest records a as failed,
\* has left one Failed row with the message and no row for c
C21_Witness ==
    \E i \in Ids(store) :
        /\ store.jobs[i].status = FAILED
        /\ store.jobs[i].status_message = FailedOnAPreviousRun("a")
        /\ ManifestStatus(disk[W1].manifest, "a") = FAILED
        /\ \E k \in 1..Len(store.reqs) :
              /\ store.reqs[k].id = store.jobs[i].job_request_id
              /\ store.reqs[k].original.requested_actions = <<"c", "b">>
        /\ Len(JobsOf(store, store.jobs[i].job_request_id)) = 1
        /\ tx = NoTx

\* The rows the expansion that ends in this step has added to the table
NewRows == SubSeq(store'.jobs, Len(store.jobs) + 1, Len(store'.jobs))

\* C22: when the expansion asks the manifest about an action (not in the
\* force set, no Pending or Running job): if the manifest records it as
\* successful and all its files are on disk, the expansion adds no row for
\* the action or for any of its needs, and no row it adds waits for a job of
\* the action; if the manifest has no entry or a file is missing, a request
\* that is committed adds a Pending job of the request for the action.  A request for b alone, with
\* a satisfied by its historical outputs, adds exactly one row: a Pending
\* job for b that waits for nothing
C22_HistoricalOutputsSatisfyADependency ==
    [][\A action \in Actions :
          (ExpansionEnds /\ action \in Consulted(store, Expanded))
              => /\ HasHistoricalOutputs(ExpandedWorkspace, action)
                       => /\ \A i \in 1..Len(NewRows) :
                                /\ NewRows[i].action # action
                                /\ NewRows[i].action \notin Range(Needs[action])
                                /\ \A id \in Range(NewRows[i].wait_for_job_ids) :
                                       store'.jobs[id].action # action
                          /\ (Expanded.requested_actions = <<"b">> /\ action = "a")
                                => /\ Len(NewRows) = 1
                                   /\ NewRows[1].action = "b"
                                   /\ NewRows[1].status = PENDING
                                   /\ NewRows[1].job_request_id = Expanded.id
                                   /\ NewRows[1].wait_for_job_ids = <<>>
                 /\ (HasNoUsableOutputs(ExpandedWorkspace, action) /\ tx.err = NoErr)
                       => \E i \in 1..Len(NewRows) :
                             /\ NewRows[i].action = action
                             /\ NewRows[i].status = PENDING
                             /\ NewRows[i].job_request_id = Expanded.id]_vars

\* After a and b completed, a request for b alone has been committed: its
\* only row is a Pending job for b that waits for nothing
C22_Witness ==
    /\ tx = NoTx
    /\ \E i, k, n \in Ids(store) :
          /\ store.jobs[i].action = "a" /\ store.jobs[i].status = COMPLETED
          /\ store.jobs[k].action = "b" /\ store.jobs[k].status = COMPLETED
          /\ store.jobs[n].action = "b" /\ store.jobs[n].status = PENDING
          /\ store.jobs[n].job_request_id # EarlierRequest
          /\ store.jobs[n].wait_for_job_ids = <<>>
          /\ Len(JobsOf(store, store.jobs[n].job_request_id)) = 1
          /\ HasHistoricalOutputs(disk[W1], "a")
          /\ ~HasActiveJob(store, W1, "a")

AlreadyScheduled ==
    Message("JobRequestError: All requested actions were already scheduled to run")

\* C23: when every requested action of the request has a Pending or Running
\* job in the workspace, the request ends with exactly one more row in the
\* table, a Failed job of the request with empty action and the message
\* "JobRequestError: All requested actions were already scheduled to run",
\* and every row that was there is as it was; when some requested action
\* has no such job, no row of the request carries that message
C23_NothingNewToSchedule ==
    [][ExpansionEnds =>
          LET rows == JobsOf(store', Expanded.id)
          IN IF \A action \in Range(Expanded.requested_actions) :
                   HasActiveJob(store, Expanded.workspace, action)
             THEN /\ Len(rows) = 1
                  /\ rows[1].status = FAILED
                  /\ rows[1].action = ""
                  /\ rows[1].status_message = AlreadyScheduled
                  /\ Len(store'.jobs) = Len(store.jobs) + 1
                  /\ SubSeq(store'.jobs, 1, Len(store.jobs)) = store.jobs
             ELSE \A i \in 1..Len(rows) : rows[i].status_message # AlreadyScheduled]_vars

\* A request for c and b was committed and a later request for b alone has
\* been failed, the Pending job for b is still there
C23_Witness ==
    /\ tx = NoTx
    /\ \E i, k \in Ids(store) :
          /\ store.jobs[i].status = FAILED
          /\ store.jobs[i].status_message = AlreadyScheduled
          /\ store.jobs[k].action = "b"
          /\ store.jobs[k].status = PENDING
          /\ store.jobs[k].job_request_id \notin {EarlierRequest, store.jobs[i].job_request_id}
          /\ k < i
          /\ \E n \in 1..Len(store.reqs) :
                /\ store.reqs[n].id = store.jobs[i].job_request_id
                /\ store.reqs[n].original.requested_actions = <<"b">>

RECURSIVE NeedsClosure(_)
\* The actions and everything they need, directly or not
NeedsClosure(actions) ==
    LET more == actions \cup UNION {Range(Needs[action]) : action \in actions}
    IN IF more = actions THEN actions ELSE NeedsClosure(more)

\* The expansion that ends in this step has added a Pending job of the
\* request for the action
NewJobFor(action) ==
    \E i \in 1..Len(NewRows) :
        /\ NewRows[i].action = action
        /\ NewRows[i].status = PENDING
        /\ NewRows[i].job_request_id = Expanded.id

\* C24 as stated, for a request that is committed: with
\* force_run_dependencies every action in the needs closure of the
\* requested actions that has no Pending or Running job gets a new Pending
\* job; without it every requested action that has no Pending or Running
\* job gets one
C24_AsStated ==
    [][(ExpansionEnds /\ tx.err = NoErr) =>
          LET requested == Range(Expanded.requested_actions)
              wanted == IF Expanded.force_run_dependencies
                        THEN NeedsClosure(requested) ELSE requested
          IN \A action \in wanted :
                ~HasActiveJob(store, Expanded.workspace, action) => NewJobFor(action)]_vars

\* C24: a request with force_run_dependencies never fails because of the
\* manifest; when a request is committed, every requested action without a
\* Pending or Running job has a new Pending job, whatever the manifest
\* says; with force_run_dependencies so has every action without such a
\* job that is reached from a requested action through the needs of
\* actions without such a job; without it an action that is not requested
\* and is reached through the needs of actions that get a new job gets one
\* exactly when it is not satisfied by historical outputs; no job is added
\* for any other action
C24_ForceSetDecidesWhatIsRun ==
    [][ExpansionEnds =>
          LET requested == Range(Expanded.requested_actions)
              workspace == Expanded.workspace
              visited == Reached(store, Expanded, requested)
              committed == tx.err = NoErr
          IN /\ Expanded.force_run_dependencies
                   => (committed <=> \E action \in requested :
                                        ~HasActiveJob(store, workspace, action))
             /\ committed =>
                   \A action \in visited :
                      ~HasActiveJob(store, workspace, action)
                         => IF InForceSet(Expanded, action)
                            THEN NewJobFor(action)
                            ELSE NewJobFor(action)
                                   <=> ~HasHistoricalOutputs(ExpandedWorkspace, action)
             /\ \A i \in 1..Len(NewRows) :
                   NewRows[i].status = PENDING => NewRows[i].action \in visited]_vars

\* A request for b with force_run_dependencies has been committed with new
\* Pending jobs for a and b, although the manifest records both as
\* successful and their files are on disk
C24_Witness ==
    /\ tx = NoTx
    /\ HasHistoricalOutputs(disk[W1], "a")
    /\ HasHistoricalOutputs(disk[W1], "b")
    /\ \E k \in 1..Len(store.reqs) :
          /\ store.reqs[k].id # EarlierRequest
          /\ store.reqs[k].original.force_run_dependencies
          /\ {row.action : row \in {r \in Range(JobsOf(store, store.reqs[k].id)) :
                                        r.status = PENDING}} = {"a", "b"}

RECURSIVE JobsObtained(_, _, _)
\* For each of the needs, in their order, the id of the Pending or Running
\* job the table holds for it, if there is one
JobsObtained(db, workspace, needs) ==
    IF needs = <<>> THEN <<>>
    ELSE LET ids == find_active(db, workspace, Head(needs))
         IN (IF ids = {} THEN <<>> ELSE <<Min(ids)>>)
                \o JobsObtained(db, workspace, Tail(needs))

\* C25: every row an expansion adds for an action is a Pending job of the
\* request whose wait_for_job_ids lists, in the order of the action's needs,
\* the Pending or Running job of each need, newly added or already there;
\* a need without such a job is not in the force set and is satisfied by
\* historical outputs.  A request for b alone, with no job for a or b and a
\* not satisfied, adds a Pending job for a and then one for b that waits
\* for it
C25_NewJobsWaitForTheirNeeds ==
    [][ExpansionEnds =>
          /\ \A i \in 1..Len(NewRows) :
                NewRows[i].action \in Actions
                    => /\ NewRows[i].status = PENDING
                       /\ NewRows[i].job_request_id = Expanded.id
                       /\ NewRows[i].id = Len(store.jobs) + i
                       /\ NewRows[i].wait_for_job_ids
                              = JobsObtained(store', Expanded.workspace,
                                             Needs[NewRows[i].action])
                       /\ \A need \in Range(Needs[NewRows[i].action]) :
                              ~HasActiveJob(store', Expanded.workspace, need)
                                  => /\ ~InForceSet(Expanded, need)
                                     /\ HasHistoricalOutputs(ExpandedWorkspace, need)
          /\ (/\ Expanded.requested_actions = <<"b">>
              /\ ~HasActiveJob(store, Expanded.workspace, "a")
              /\ ~HasActiveJob(store, Expanded.workspace, "b")
              /\ Descends(store, Expanded, "a"))
                 => /\ Len(NewRows) = 2
                    /\ NewRows[1].action = "a" /\ NewRows[1].status = PENDING
                    /\ NewRows[2].action = "b" /\ NewRows[2].status = PENDING
                    /\ NewRows[2].wait_for_job_ids = <<NewRows[1].id>>]_vars

\* A request for d has been committed while a job of an earlier request
\* for b was active: the new job for d waits for the new job for c and
\* then for the older job for b
C25_Witness ==
    /\ tx = NoTx
    /\ \E i, k, n \in Ids(store) :
          /\ store.jobs[n].action = "d" /\ store.jobs[n].status = PENDING
          /\ store.jobs[i].action = "c" /\ store.jobs[i].status = PENDING
          /\ store.jobs[k].action = "b" /\ store.jobs[k].status \in Active
          /\ store.jobs[k].job_request_id = EarlierRequest
          /\ store.jobs[i].job_request_id = store.jobs[n].job_request_id
          /\ k < i
          /\ store.jobs[n].wait_for_job_ids = <<i, k>>

\* C26: every id in the wait_for_job_ids of a stored job is the id of a row
\* of the same workspace that was inserted before the job (its position in
\* the table is lower); hence no job waits for itself and no chain of
\* waiting jobs comes back to its start
C26_JobsWaitForEarlierJobs ==
    \A j \in Ids(store) :
        \A id \in Range(store.jobs[j].wait_for_job_ids) :
            /\ id \in Ids(store)
            /\ id < j
            /\ store.jobs[id].workspace = store.jobs[j].workspace

\* Both workspaces hold a job for b that waits for the job for a of its own
\* workspace; the job of the second workspace was inserted after both jobs
\* of the first
C26_Witness ==
    \E i, k \in Ids(store) :
        /\ store.jobs[i].action = "b" /\ store.jobs[i].workspace = W1
        /\ store.jobs[k].action = "b" /\ store.jobs[k].workspace = W2
        /\ store.jobs[i].status = PENDING /\ store.jobs[k].status = PENDING
        /\ i < k
        /\ store.jobs[k].wait_for_job_ids = <<k - 1>>
        /\ store.jobs[k - 1].workspace = W2
        /\ store.jobs[i].wait_for_job_ids # <<>>
        /\ \E id \in Range(store.jobs[i].wait_for_job_ids) :
              store.jobs[id].status \in Active

\* The run loop has created a volume or a container for job j
Started(j) == docker[j].populated > 0 \/ docker[j].runs > 0

\* Neither the container nor the volume of job j exists
Deleted(j) == docker[j].container = "absent" /\ ~docker[j].volume

\* C27: whenever a job for which the run loop created a volume or a
\* container is Completed or Failed, its container and its volume are
\* eventually deleted, also when the process was killed in between
C27_ContainersEventuallyDeleted ==
    \A j \in JobIds :
        (j \in Ids(store) /\ store.jobs[j].status \in Terminal /\ Started(j))
            ~> Deleted(j)

ContainerHasVanished == Err("JobError", "Job container has vanished")

\* A step of the run loop itself: not a kill and not a failing docker command
LoopGoesOn == loop' # loop /\ kills' = kills /\ hist'.failures = hist.failures

\* C28: when finalise_job runs for a job whose container does not exist, the
\* step raises JobError "Job container has vanished" and leaves the disk
\* (log directory, both workspaces, manifests) and the job table as they
\* are; the loop's next step for the job stores Failed with the message
\* "JobError: Job container has vanished" and writes nothing to disk either
C28_VanishedContainerFailsTheJob ==
    /\ [][(/\ loop.pc = "finalise"
            /\ LoopGoesOn
            /\ ~container_exists(docker[loop.job]))
              => /\ loop'.pc = "mark_failed"
                 /\ loop'.err = ContainerHasVanished
                 /\ loop'.job = loop.job
                 /\ disk' = disk
                 /\ store' = store]_vars
    /\ [][(/\ loop.pc = "mark_failed"
            /\ LoopGoesOn
            /\ loop.err = ContainerHasVanished)
              => /\ store'.jobs[loop.job].status = FAILED
                 /\ store'.jobs[loop.job].status_message
                        = Message("JobError: Job container has vanished")
                 /\ disk' = disk]_vars

\* A job that was run once is Failed because its container had vanished,
\* and there is no metadata of it in the log directory
C28_Witness ==
    \E j \in Ids(store) :
        /\ store.jobs[j].status = FAILED
        /\ store.jobs[j].status_message = Message("JobError: Job container has vanished")
        /\ docker[j].runs = 1
        /\ \A e \in disk[store.jobs[j].workspace].logdir : e.job_id # j

\* Some action the job requires outputs from has no manifest entry, is
\* recorded as not successful, or has a listed file missing from the disk
InputsUnavailable(j) ==
    \E need \in Range(store.jobs[j].requires_outputs_from) :
        list_outputs_outcome(disk[store.jobs[j].workspace], need) # "ok"

InputErrors == {"ActionNotRunError", "ActionFailedError", "MissingOutputError"}

ImageNotAvailable == Err("JobError", "Docker image is not currently available")

ApiRequestLeft == hist.sync.pc # "exited" /\ hist'.sync # hist.sync

\* The line api_request logs for the body of a response
BodyLine(response) == <<"job-server returned 400: %s", response.text>>

\* C30, as stated: a call of api_request (GET or POST) answered with 400
\* logs the body of the response and ends without an exception, so that the
\* sync cycle goes on; a call answered with any other status outside 2xx
\* ends with an exception.
C30_AsStated ==
    [][ApiRequestLeft =>
          LET response == hist'.sync.call.response
          IN /\ response.status_code = 400 =>
                    /\ hist'.sync.log = Append(hist.sync.log, BodyLine(response))
                    /\ hist'.sync.raised = NoErr
                    /\ hist'.sync.pc # "exited"
             /\ (response.status_code \notin 200..299 /\ response.status_code # 400) =>
                    hist'.sync.raised # NoErr]_vars

\* C30, amended: a call of api_request (GET or POST) answered with 400 logs
\* the body of the response and then ends with HTTPError, as every call
\* answered with a 4xx or 5xx status does: the sync cycle is left and the job
\* table is as it was.  No other status is logged.  A call
\* answered with a status below 400 never ends with HTTPError: it returns
\* the JSON document of the body, or ends with the error of parsing it.
C30_ApiRequestLogsAndRaises ==
    [][ApiRequestLeft =>
          LET response == hist'.sync.call.response
              status == response.status_code
          IN /\ hist'.sync.call.method = (IF hist.sync.pc = "get" THEN "get" ELSE "post")
             /\ hist'.sync.log = IF status = 400
                                 THEN Append(hist.sync.log, BodyLine(response))
                                 ELSE hist.sync.log
             /\ status \in 400..599 =>
                    /\ hist'.sync.raised.kind = "HTTPError"
                    /\ hist'.sync.pc = "exited"
                    /\ store' = store
             /\ status < 400 =>
                    /\ hist'.sync.raised.kind # "HTTPError"
                    /\ hist'.sync.raised = NoErr <=> response.text = JsonText
                    /\ hist'.sync.raised = NoErr <=> hist'.sync.pc # "exited"
                    /\ (hist.sync.pc = "get" /\ hist'.sync.raised = NoErr) =>
                           hist'.sync.results = response.results]_vars

\* A POST of the jobs of a job request was answered with 400: the body is
\* the last line of the log and the sync process has ended with HTTPError
C30_Witness ==
    /\ hist.sync.call.method = "post"
    /\ hist.sync.call.response.status_code = 400
    /\ hist.sync.call.response.text = JsonText
    /\ hist.sync.log # <<>>
    /\ hist.sync.log[Len(hist.sync.log)] = BodyLine(hist.sync.call.response)
    /\ hist.sync.raised.kind = "HTTPError"
    /\ hist.sync.pc = "exited"
    /\ hist.sync.posted # <<>>

\* The changes of status a stored job can go through
Transitions == {<<PENDING, RUNNING>>, <<PENDING, FAILED>>,
                <<RUNNING, COMPLETED>>, <<RUNNING, FAILED>>}

\* Job j is the one the loop is handling in this iteration, its stored
\* status is still the one handle_jobs read, and the rows that are left to
\* handle in this iteration hold no other copy of it
HandledOnce(j) ==
    /\ loop.todo # <<>>
    /\ Head(loop.todo).id = j
    /\ Head(loop.todo).status = store.jobs[j].status
    /\ \A k \in 2..Len(loop.todo) : loop.todo[k].id # j

\* C40: every change of a stored job's status is one of Pending->Running,
\* Pending->Failed, Running->Completed, Running->Failed (so nothing returns
\* to Pending); it is made for the job the loop is handling, whose status
\* has not changed since handle_jobs read it and which is not handled again
\* in this iteration: at most one change per job and iteration.
C40_StatusChangesOncePerIteration ==
    [][\A j \in Ids(store) \cap Ids(store') :
          store'.jobs[j].status # store.jobs[j].status
             => /\ <<store.jobs[j].status, store'.jobs[j].status>> \in Transitions
                /\ HandledOnce(j)
                /\ \A i \in (Ids(store) \cap Ids(store')) \ {j} :
                       store'.jobs[i].status = store.jobs[i].status]_vars

\* One job has gone from Pending through Running to Completed, another from
\* Running to Failed when its container exited with an error, and the loop
\* is in an iteration in which it handles a third
C40_Witness ==
    /\ loop.todo # <<>>
    /\ \E j, k \in Ids(store) :
          /\ store.jobs[j].status = COMPLETED
          /\ store.jobs[k].status = FAILED
          /\ store.jobs[k].status_message.text = "JobError: Job exited with an error code"
          /\ Head(loop.todo).id \notin {j, k}

\* The container of job j was run and cleanup_job has removed it with the
\* volume
RemovedByCleanup(j) ==
    /\ docker[j].runs > 0
    /\ docker[j].container = "absent"
    /\ ~docker[j].volume

\* C39: in no reachable state, also after a failure of a docker command has
\* left finalise_job, is a job Pending or Running in the store while
\* cleanup_job has removed its container and volume: the loop deletes them
\* only for a job whose stored status is already Completed or Failed.
C39_CleanupOnlyAfterTerminalStatus ==
    \A j \in Ids(store) : RemovedByCleanup(j) => store.jobs[j].status \in Terminal

\* What finalise_job has left for job j when it returned without raising:
\* the container exited with code 0, each pattern of the job's output_spec
\* matches a file of its volume, and the manifest of the workspace records
\* a successful run of the action by this job
FinalisedWithoutError(j) ==
    LET job == store.jobs[j]
        manifest == disk[job.workspace].manifest
    IN /\ docker[j].container = "exited"
       /\ docker[j].exit_code = 0
       /\ \A i \in 1..Len(job.output_spec) :
              glob_volume_files(docker[j].files, job.output_spec[i][3]) # {}
       /\ ManifestStatus(manifest, job.action) = SUCCEEDED
       /\ ManifestEntry(manifest, job.action).job_id = j

\* C38: a stored job becomes Completed only from Running, in the step of
\* mark_job_as_completed that follows a finalise_job which returned without
\* raising: the job's container exited with code 0, every declared output
\* pattern matched a file, and the high-privacy manifest records a
\* successful run of its action with this job's id.
C38_CompletedOnlyAfterFinalise ==
    [][\A j \in Ids(store) \cap Ids(store') :
          (store'.jobs[j].status = COMPLETED /\ store.jobs[j].status # COMPLETED)
             => /\ store.jobs[j].status = RUNNING
                /\ loop.pc = "mark_completed"
                /\ loop.job = j
                /\ FinalisedWithoutError(j)]_vars

\* A job of action b has been Completed in an execution in which a process
\* was killed and started again; its container is cleaned up and its
\* outputs are in the workspace
C38_Witness ==
    \E j \in Ids(store) :
        /\ store.jobs[j].status = COMPLETED
        /\ store.jobs[j].action = "b"
        /\ kills = MaxKills
        /\ docker[j].container = "absent"
        /\ Producible("b") \subseteq disk[store.jobs[j].workspace].files

\* The job containers that exist and are running
RunningContainers == {j \in DOMAIN docker : container_is_running(docker[j])}

\* C37: at every point of every execution, also when the run process is
\* killed between docker.run and mark_job_as_running and is started again,
\* at most MAX_WORKERS job containers are running at the same time.
C37_RunningContainersWithinMaxWorkers ==
    Cardinality(RunningContainers) <= config.MAX_WORKERS

\* The ten-minute window of a timestamp: the timestamp without the units
\* digit of its minute
Window(t) == t \div 10

\* The message a poll of the job logs with timestamp=True
PollText(job) ==
    IF job.status = RUNNING THEN "Running"
    ELSE IF dependencies_completed(get_states_of_awaited_jobs(store, job))
    THEN "Waiting for available workers"
    ELSE "Waiting on dependencies"

\* A step in which a handler polls the job at the head of the list, logs
\* with timestamp=True and returns: the job stays as it was
Polled ==
    /\ loop.pc = "iter" /\ loop.todo # <<>>
    /\ loop'.pc = "iter" /\ loop'.todo = Tail(loop.todo)
    /\ kills' = kills
    /\ store'.jobs[Head(loop.todo).id].status = store.jobs[Head(loop.todo).id].status

\* C36: a poll of a waiting or running job writes status_message only when
\* the timestamped message differs from the stored one in its text or in the
\* ten-minute window of its timestamp (every character but the last); what
\* it writes is the message with the current minute, and nothing else of
\* the store changes.  A poll with the text that is stored, in the window
\* of the stored timestamp, writes nothing: at most one write per window
\* for an idle job.
C36_TimestampedLogWritesOncePerWindow ==
    [][Polled =>
          LET job == Head(loop.todo)
              stored == store.jobs[job.id].status_message
              message == Stamped(PollText(job), now)
              same == /\ stored.stamp # NoStamp
                      /\ stored.text = message.text
                      /\ Window(stored.stamp) = Window(message.stamp)
          IN /\ same => store' = store
             /\ ~same => store' = update(store, job.id, [status_message |-> message])
             /\ store.jobs[job.id].status \in Active]_vars

\* The message of the running job was written again with the minute of the
\* next window, the job that waits for it still carries the message written
\* in the window before, and the loop is about to poll that one
C36_Witness ==
    /\ now = MaxNow
    /\ Window(MaxNow) # Window(MinNow)
    /\ Len(store.jobs) >= 2
    /\ store.jobs[1].status_message = Stamped("Running", MaxNow)
    /\ store.jobs[2].status_message.text = "Waiting on dependencies"
    /\ Window(store.jobs[2].status_message.stamp) = Window(MinNow)
    /\ loop.pc = "iter"
    /\ loop.todo # <<>>
    /\ Head(loop.todo).id = 2

\* C35: the store holds exactly one SavedJobRequest row for each request
\* create_or_update_jobs has returned for, with the payload of the request,
\* and none for any other; a row that is in the store is never changed or
\* removed by any step; and when the expansion raised inside its
\* transaction, whose insert of the row is rolled back, the row in the store
\* is the one create_failed_job inserted.
C35_SavedJobRequestWrittenOnce ==
    /\ [](\A r \in RequestIds :
            /\ Len(ReqsOf(store, r)) = (IF r \in hist.returned THEN 1 ELSE 0)
            /\ \A i \in 1..Len(store.reqs) : store.reqs[i].original.id = store.reqs[i].id)
    /\ [][/\ Len(store'.reqs) >= Len(store.reqs)
          /\ SubSeq(store'.reqs, 1, Len(store.reqs)) = store.reqs
          /\ (tx.phase = "open" /\ tx'.phase = "none" /\ tx.err # NoErr /\ kills' = kills)
                => /\ ReqsOf(tx.work, tx.req.id) # <<>>
                   /\ store'.reqs = Append(store.reqs,
                                           [id |-> tx.req.id, original |-> tx.req])]_vars

\* A request was expanded and committed, and a second one raised inside its
\* transaction and was projected to a failed job: each has one row
C35_Witness ==
    /\ \E e \in hist.raised :
          /\ e[2].text = "All requested actions were already scheduled to run"
          /\ Len(ReqsOf(store, e[1])) = 1
          /\ Len(JobsOf(store, e[1])) = 1
    /\ \E r \in hist.returned :
          /\ \A e \in hist.raised : e[1] # r
          /\ Len(ReqsOf(store, r)) = 1
          /\ Len(JobsOf(store, r)) >= 2

\* Every file of the manifest is created by an action that has exactly one
\* entry among the manifest's actions
FilesHaveTheirAction(manifest) ==
    \A f \in DOMAIN manifest.files :
        Cardinality({i \in 1..Len(manifest.actions) :
                        manifest.actions[i].action = manifest.files[f].created_by_action}) = 1

\* C34: after any sequence of finalise_job runs on a workspace, successful
\* or failed, of the same or of different actions, also of two actions that
\* produce the same path, every entry of the files map of the manifest (of
\* the high and of the medium privacy directory) names one
\* created_by_action, and this action has an entry in the actions map.
C34_ManifestFilesHaveTheirAction ==
    \A w \in Workspaces :
        /\ FilesHaveTheirAction(disk[w].manifest)
        /\ FilesHaveTheirAction(disk[w].mmanifest)

\* The job of c left out/1.csv and was finalised; the job of a, which
\* produced the same path, was then finalised: update_manifest raised, the
\* manifest still names c for the file, and the job of a has ended Failed
\* for a container that has vanished
C34_Witness ==
    LET manifest == disk[W1].manifest
    IN /\ "out/1.csv" \in DOMAIN manifest.files
       /\ manifest.files["out/1.csv"].created_by_action = "c"
       /\ ManifestEntry(manifest, "c").job_id = 3
       /\ docker[2].files = {}
       /\ docker[2].container = "absent"
       /\ store.jobs[2].status = FAILED
       /\ store.jobs[2].status_message = Message("JobError: Job container has vanished")
       /\ <<"a", 2>> \in disk[W1].logs

----------------------------------------------------------------------------
\* The words of a command line that follow the word given
Following(line, word) == {line[i + 1] : i \in {k \in 1..(Len(line) - 1) : line[k] = word}}

\* The docker options of a command line: what comes before the image
Options(line) ==
    LET images == {i \in 1..Len(line) :
                       \E image \in {c[1] : c \in RunCommands} :
                           line[i] = DOCKER_REGISTRY \o "/" \o image}
    IN SubSeq(line, 1, Min(images) - 1)

Privileged ==
    /\ is_generate_cohort_command(shlex_split(hist.start.run_command))
    /\ ~config.USING_DUMMY_DATA_BACKEND

\* C33: the container start_job runs has its network disabled and gets no
\* DATABASE_URL and no TEMP_DATABASE_NAME, unless the command is a
\* generate-cohort command and the dummy data backend is off; then, and only
\* then, the network is allowed and the database URL of job.database_name is
\* passed (with TEMP_DATABASE_NAME when one is configured)
C33_NetworkAndDatabaseOnlyForCohorts ==
    hist.start.pc = "started" =>
        LET options == Options(hist.start.run_args)
            passed == Following(options, "--env")
        IN /\ Privileged =>
                /\ "--network" \notin Range(options)
                /\ ("DATABASE_URL=" \o DATABASE_URLS[hist.start.database_name]) \in passed
                /\ config.TEMP_DATABASE_NAME # "" =>
                       ("TEMP_DATABASE_NAME=" \o config.TEMP_DATABASE_NAME) \in passed
           /\ ~Privileged =>
                /\ Following(options, "--network") = {"none"}
                /\ passed = {}

\* A generate-cohort command started against a real database, with the network
C33_Witness ==
    /\ hist.start.pc = "started"
    /\ Privileged
    /\ "--network" \notin Range(hist.start.run_args)
    /\ config.TEMP_DATABASE_NAME # ""

\* A command that names generate_cohort without being a generate-cohort
\* command, started against a real database
C33_WitnessUnprivileged ==
    /\ hist.start.pc = "started"
    /\ ~config.USING_DUMMY_DATA_BACKEND
    /\ "generate_cohort" \in Range(hist.start.run_args)
    /\ ~Privileged

----------------------------------------------------------------------------
\* A path matches a shell glob in full, "*" standing for any run of
\* characters other than "/"
RECURSIVE GlobMatches(_, _)
GlobMatches(pattern, path) ==
    IF pattern = <<>> THEN path = <<>>
    ELSE IF Head(pattern) = "*"
    THEN \E n \in 0..Len(path) :
            /\ \A i \in 1..n : path[i] # "/"
            /\ GlobMatches(Tail(pattern), SubSeq(path, n + 1, Len(path)))
    ELSE /\ path # <<>>
         /\ Head(path) = Head(pattern)
         /\ GlobMatches(Tail(pattern), Tail(path))

\* C32: glob_volume_files returns, for each pattern, exactly the sorted list
\* of the paths of the volume that match the pattern in full as a shell glob
\* whose "*" does not cross "/"; no path is attributed to a pattern it only
\* matches in part, also when several patterns are passed in one call
C32_MatchesAreFullGlobMatches ==
    hist.glob.pc = "returned" =>
        \A i \in 1..Len(hist.glob.glob_patterns) :
            hist.glob.matches[i] =
                sorted({f \in hist.glob.volume :
                           GlobMatches(hist.glob.glob_patterns[i], f)})

\* The same for calls with one pattern
C32_SinglePatternMatchesInFull ==
    (hist.glob.pc = "returned" /\ Len(hist.glob.glob_patterns) = 1) =>
        hist.glob.matches[1] =
            sorted({f \in hist.glob.volume : GlobMatches(hist.glob.glob_patterns[1], f)})

\* A call with two patterns has returned and both have matches
C32_Witness ==
    /\ hist.glob.pc = "returned"
    /\ Len(hist.glob.glob_patterns) = 2
    /\ \A i \in 1..2 : Len(hist.glob.matches[i]) > 1

----------------------------------------------------------------------------
\* create_or_update_jobs is over for the request: it returned, or an
\* exception left it
Over(r) == r \in hist.returned \/ \E e \in hist.raised : e[1] = r

\* C31: when create_or_update_jobs has expanded a request against a project
\* whose needs have a circle that a requested action reaches (in a workspace
\* where nothing is scheduled or recorded for the actions needed), the call
\* is over with the circle reported: the request has exactly one job,
\* Failed, whose status_message is a ProjectValidationError
C31_CycleSurfacedAsValidationFailure ==
    \A r \in hist.cyclic :
        (tx.phase = "none" /\ Over(r)) =>
            LET rows == JobsOf(store, r)
            IN /\ Len(rows) = 1
               /\ rows[1].status = FAILED
               /\ \E e \in hist.raised :
                     /\ e[1] = r
                     /\ e[2].kind = "ProjectValidationError"
                     /\ rows[1].status_message = Message(e[2].kind \o ": " \o e[2].text)

\* The recursion went round the circle until the interpreter stopped it, and
\* the request is left without any job
C31_RecursionError ==
    \E e \in hist.raised :
        /\ e[1] \in hist.cyclic
        /\ e[2].kind = "RecursionError"
        /\ JobsOf(store, e[1]) = <<>>
        /\ tx.phase = "none"
====
